---- MODULE Spec2Model ----
(***************************************************************************)
(* A model of the configuration loader of stc_gen.StcGen                   *)
(* (src/stc_gen/stc_gen.py): loadJson and its three phases (__addObject,   *)
(* __resolveRelations, __addModifiers), the object registry and its        *)
(* purge, and the attribute fallback (__config / __findAttribute).         *)
(*                                                                         *)
(* Strings are TLA+ strings handled character by character, so that        *)
(* lower(), sorted(), the regular-expression searches and the string       *)
(* concatenations of the code are computed and not assumed.                *)
(*                                                                         *)
(* The Spirent TestCenter engine (self.stc) is the external collaborator.  *)
(* It is modelled as a forest of typed objects with handles of the form    *)
(* <type in lower case><number>, a fixed attribute schema per type, and    *)
(* descendant notation (DDN) resolution by type and index.                 *)
(*                                                                         *)
(* Dictionaries iterate in insertion order (Python 3.7 and later); they    *)
(* are modelled as sequences of entries.                                   *)
(***************************************************************************)
EXTENDS Integers, Sequences, FiniteSets, TLC

(***************************************************************************)
(* Strings                                                                 *)
(***************************************************************************)
UpperCase == "ABCDEFGHIJKLMNOPQRSTUVWXYZ"
LowerCase == "abcdefghijklmnopqrstuvwxyz"
DigitChars == "0123456789"
HexChars == "0123456789abcdef"
\* The characters used by the model, in code point order.
CodeOrder == " ()-./0123456789:=ABCDEFGHIJKLMNOPQRSTUVWXYZ[]_abcdefghijklmnopqrstuvwxyz"

Ch(s, i) == SubSeq(s, i, i)

\* The first position of character c in s, 0 when absent.
IndexOf(c, s) ==
    LET hits == {i \in 1..Len(s) : Ch(s, i) = c}
    IN  IF hits = {} THEN 0 ELSE CHOOSE i \in hits : \A j \in hits : i <= j

Code(c) == IndexOf(c, CodeOrder)

UpperChars == {Ch(UpperCase, i) : i \in 1..Len(UpperCase)}

LowerChar(c) ==
    LET at(i) == IF i > 0 THEN Ch(LowerCase, i) ELSE c
    IN  IF c \in UpperChars THEN at(IndexOf(c, UpperCase)) ELSE c

\* str.lower()
RECURSIVE Lower(_)
Lower(s) == IF s = "" THEN "" ELSE LowerChar(Head(s)) \o Lower(Tail(s))

\* The order of Python's str comparison (code points, then length).
RECURSIVE StrLess(_, _)
StrLess(a, b) ==
    IF b = "" THEN FALSE
    ELSE IF a = "" THEN TRUE
    ELSE IF Head(a) = Head(b) THEN StrLess(Tail(a), Tail(b))
    ELSE Code(Head(a)) < Code(Head(b))

\* The first position at which sub occurs in s, 0 when it does not.
Find(sub, s) ==
    LET n == Len(sub)
        hits == {i \in 1..(Len(s) - n + 1) : SubSeq(s, i, i + n - 1) = sub}
    IN  IF hits = {} THEN 0 ELSE CHOOSE i \in hits : \A j \in hits : i <= j

\* re.search(<literal>, s, flags=re.I) is not None
SearchI(pat, s) == Find(Lower(pat), Lower(s)) > 0

\* re.search(<literal> + "$", s, flags=re.I) is not None
EndsWithI(pat, s) ==
    /\ Len(s) >= Len(pat)
    /\ Lower(SubSeq(s, Len(s) - Len(pat) + 1, Len(s))) = Lower(pat)

\* re.sub(<literal>, repl, s, flags=re.I): every occurrence, left to right.
RECURSIVE SubI(_, _, _)
SubI(pat, repl, s) ==
    LET from(i) == IF i = 0 THEN s
                   ELSE SubSeq(s, 1, i - 1) \o repl
                        \o SubI(pat, repl, SubSeq(s, i + Len(pat), Len(s)))
    IN  from(Find(Lower(pat), Lower(s)))

\* str.split(sep) for a one-character separator.
RECURSIVE SplitOn(_, _)
SplitOn(s, sep) ==
    LET at(i) == IF i = 0 THEN <<s>>
                 ELSE <<SubSeq(s, 1, i - 1)>> \o SplitOn(SubSeq(s, i + 1, Len(s)), sep)
    IN  at(IndexOf(sep, s))

RECURSIVE DropEmpty(_)
DropEmpty(q) ==
    IF q = <<>> THEN <<>>
    ELSE IF Head(q) = "" THEN DropEmpty(Tail(q))
    ELSE <<Head(q)>> \o DropEmpty(Tail(q))

\* str.split(): on runs of blanks, no empty pieces.
SplitWs(s) == DropEmpty(SplitOn(s, " "))

\* The parts joined last to first.
RECURSIVE JoinBackwards(_, _)
JoinBackwards(parts, sep) ==
    IF parts = <<>> THEN ""
    ELSE IF Len(parts) = 1 THEN parts[1]
    ELSE JoinBackwards(Tail(parts), sep) \o sep \o parts[1]

\* sep.join(q)
RECURSIVE Join(_, _)
Join(q, sep) ==
    IF q = <<>> THEN ""
    ELSE IF Len(q) = 1 THEN q[1]
    ELSE q[1] \o sep \o Join(Tail(q), sep)

\* str(n) for a natural number.
RECURSIVE Dec(_)
Dec(n) == IF n < 10 THEN Ch(DigitChars, n + 1)
          ELSE Dec(n \div 10) \o Ch(DigitChars, (n % 10) + 1)

IsDigit(c) == c # "" /\ IndexOf(c, DigitChars) > 0

\* The value of a string of decimal digits.
RECURSIVE DecValue(_)
DecValue(s) ==
    IF s = "" THEN 0
    ELSE 10 * DecValue(SubSeq(s, 1, Len(s) - 1)) + (IndexOf(Ch(s, Len(s)), DigitChars) - 1)

Range(q) == {q[i] : i \in 1..Len(q)}

\* sorted(q) for a sequence of distinct strings.
RECURSIVE SortedSet(_)
SortedSet(S) ==
    IF S = {} THEN <<>>
    ELSE LET m == CHOOSE x \in S : \A y \in S \ {x} : StrLess(x, y)
         IN  <<m>> \o SortedSet(S \ {m})

Sorted(q) == SortedSet(Range(q))

(***************************************************************************)
(* The external engine (self.stc): a forest of typed objects.              *)
(* eng maps each live handle to [type, name, parent, ord, aff]; ord is the *)
(* creation rank (children are listed in creation order), aff the port a   *)
(* device is affiliated to.                                                *)
(***************************************************************************)
NoHandle == ""
SystemHandle == "system1"

\* The attribute names of each object type, in the engine's own letter case.
TypeAttrs(type) ==
    CASE type = "Project"         -> {}
      [] type = "Port"            -> {"Location", "AppendLocationToPortName"}
      [] type = "Generator"       -> {}
      [] type = "GeneratorConfig" -> {"SchedulingMode"}
      [] type = "StreamBlock"     -> {"Load", "SrcBinding", "DstBinding", "ExpectedRx"}
      [] type = "EmulatedDevice"  -> {"RouterId"}
      [] type = "Ipv4If"          -> {"Address"}
      [] type = "RangeModifier"   -> {"Mask", "OffsetReference"}
      [] type = "BgpRouterConfig" -> {"AsNum"}
      [] type = "ipv4:IPv4"       -> {"sourceAddr"}
      [] type = "tosDiffserv"     -> {}
      [] type = "tos"             -> {"precedence", "dBit", "tBit", "rBit", "mBit", "reserved"}
      [] type = "EmulatedDeviceGenParams" -> {"Port", "Count", "DeviceName", "BlockMode"}
      [] type = "DeviceGenEthIIIfParams"  -> {}
      [] type = "DeviceGenVlanIfParams"   -> {"Count", "RepeatMode"}
      [] type = "DeviceGenIpv4IfParams"   -> {}
      [] type = "DeviceGenIpv6IfParams"   -> {"AddrType"}
      [] OTHER -> {}

EngineTypes ==
    {"Project", "Port", "Generator", "GeneratorConfig", "StreamBlock", "EmulatedDevice",
     "Ipv4If", "RangeModifier", "BgpRouterConfig", "ipv4:IPv4", "tosDiffserv", "tos",
     "EmulatedDeviceGenParams", "DeviceGenEthIIIfParams", "DeviceGenVlanIfParams",
     "DeviceGenIpv4IfParams", "DeviceGenIpv6IfParams", "Host", "Router"}

\* Class names are matched without regard to letter case; "" for an unknown class.
Canon(type) ==
    IF \E t \in EngineTypes : Lower(t) = Lower(type)
    THEN CHOOSE t \in EngineTypes : Lower(t) = Lower(type)
    ELSE ""

\* A value no attribute accepts.
InvalidValue == "INVALID"

EngObj(type, name, parent, ord, aff) ==
    [type |-> type, name |-> name, parent |-> parent, ord |-> ord, aff |-> aff]

Alive(e, h) == h \in DOMAIN e

\* A set of handles as a sequence in creation order.
RECURSIVE ByOrd(_, _)
ByOrd(e, S) ==
    IF S = {} THEN <<>>
    ELSE LET m == CHOOSE x \in S : \A y \in S : e[x].ord <= e[y].ord
         IN  <<m>> \o ByOrd(e, S \ {m})

ChildSet(e, h) == {c \in DOMAIN e : e[c].parent = h}

\* The children listed last to first.
ChildrenBackwards(e, h) ==
    LET back(q) == [i \in 1..Len(q) |-> q[Len(q) + 1 - i]]
    IN  back(ByOrd(e, ChildSet(e, h)))

\* stc.get(h, "children").split()
Children(e, h) == ByOrd(e, ChildSet(e, h))

\* stc.get(h, "children-<type>").split()
ChildrenOfType(e, h, type) ==
    ByOrd(e, {c \in ChildSet(e, h) : Lower(e[c].type) = Lower(type)})

\* h and everything below it.
RECURSIVE Subtree(_, _)
Subtree(e, h) ==
    {h} \cup UNION {Subtree(e, c) : c \in ChildSet(e, h)}

\* One step of a descendant path: "type" or "type(k)".
StepType(part) ==
    LET upto(i) == IF i = 0 THEN part ELSE SubSeq(part, 1, i - 1)
    IN  upto(IndexOf("(", part))

StepIndex(part) ==
    LET between(i, j) == IF i = 0 \/ j <= i + 1 THEN 1
                         ELSE DecValue(SubSeq(part, i + 1, j - 1))
    IN  between(IndexOf("(", part), IndexOf(")", part))

RECURSIVE Navigate(_, _, _)
Navigate(e, h, parts) ==
    LET pick(kids, k) == IF k < 1 \/ k > Len(kids) THEN NoHandle ELSE kids[k]
    IN  IF h = NoHandle \/ parts = <<>> THEN h
        ELSE Navigate(e, pick(ChildrenOfType(e, h, StepType(Head(parts))),
                              StepIndex(Head(parts))),
                      Tail(parts))

\* The object a handle or a descendant notation "handle.type(k).type" names
\* in the engine, NoHandle when it names none.
EngResolve(e, ddn) ==
    LET from(parts) == IF ~Alive(e, Head(parts)) THEN NoHandle
                       ELSE Navigate(e, Head(parts), Tail(parts))
    IN  from(SplitOn(ddn, "."))

\* Whether stc.config(target, attr=value) succeeds.
EngConfigOk(e, target, attr, value) ==
    LET has(h) == h # NoHandle /\ attr \in TypeAttrs(e[h].type)
    IN  value # InvalidValue /\ has(EngResolve(e, target))

NewHandle(type, n) == Lower(type) \o Dec(n)

\* The engine with one more object; the handle is NewHandle(type, n).
EngAdd(e, n, type, name, parent, aff) ==
    [x \in DOMAIN e \cup {NewHandle(type, n)} |->
        IF x \in DOMAIN e THEN e[x] ELSE EngObj(type, name, parent, n, aff)]

\* stc.delete(h): the object and everything below it.
EngDelete(e, h) ==
    LET gone == Subtree(e, h)
    IN  [x \in DOMAIN e \ gone |-> e[x]]

\* stc.perform("GetObjects", RootList=root, ClassName=class)["ObjectList"].split()
EngGetObjects(e, root, class) ==
    ByOrd(e, {h \in Subtree(e, root) : Lower(e[h].type) = Lower(class)})

\* The protocol headers the engine builds for a stream block's FrameConfig.
PduType(header) ==
    CASE Lower(header) = "ipv4" -> "ipv4:IPv4"
      [] OTHER -> ""

\* Objects the engine owns and refuses to delete.
Undeletable == {"Project", "Generator", "GeneratorConfig"}

\* Whether stc.delete(h) succeeds.
EngDeleteOk(e, h) == Alive(e, h) /\ e[h].type \notin Undeletable

\* stc.create("StreamBlock", under=port, FrameConfig=fc, Name=name): the stream
\* block and, for an IPv4 header, its ipv4:IPv4 / tosDiffserv / tos objects.
EngAddStreamBlock(e, n, port, fc, name) ==
    LET ipv4(headers) == \E i \in 1..Len(headers) : PduType(headers[i]) = "ipv4:IPv4"
    IN  IF ipv4(SplitWs(fc))
        THEN [eng |-> EngAdd(EngAdd(EngAdd(EngAdd(e, n, "StreamBlock", name, port, NoHandle),
                                           n + 1, "ipv4:IPv4", "ip_1",
                                           NewHandle("StreamBlock", n), NoHandle),
                                    n + 2, "tosDiffserv", "", NewHandle("ipv4:IPv4", n + 1),
                                    NoHandle),
                             n + 3, "tos", "", NewHandle("tosDiffserv", n + 2), NoHandle),
              next |-> n + 4]
        ELSE [eng |-> EngAdd(e, n, "StreamBlock", name, port, NoHandle), next |-> n + 1]

\* stc.perform("DeviceGenConfigExpand", GenParams=edp): one emulated device under
\* the project, affiliated to the port, with an Ipv4If when asked for.
EngExpandDevice(e, n, project, port, name, withIpv4) ==
    IF withIpv4
    THEN [eng |-> EngAdd(EngAdd(e, n, "EmulatedDevice", name, project, port),
                         n + 1, "Ipv4If", "", NewHandle("EmulatedDevice", n), NoHandle),
          next |-> n + 2]
    ELSE [eng |-> EngAdd(e, n, "EmulatedDevice", name, project, port), next |-> n + 1]

\* stc.create(type, under=parent, name=name): a port comes with its generator.
EngCreate(e, n, type, name, parent) ==
    IF type = "Port"
    THEN [eng |-> EngAdd(EngAdd(EngAdd(e, n, type, name, parent, NoHandle),
                                n + 1, "Generator", "", NewHandle(type, n), NoHandle),
                         n + 2, "GeneratorConfig", "", NewHandle("Generator", n + 1), NoHandle),
          next |-> n + 3]
    ELSE [eng |-> EngAdd(e, n, type, name, parent, NoHandle), next |-> n + 1]

\* stc.perform("ResetConfig", config="system1"): only the project is left.
EngReset(e) == [h \in {x \in DOMAIN e : e[x].type = "Project"} |-> e[h]]

\* stc.get("system1", "children-project")
EngProject(e) == Join(ChildrenOfType(e, SystemHandle, "Project"), " ")

\* A project with one port, which owns a generator.
EngineBare ==
    EngCreate(EngAdd(<<>>, 1, "Project", "Project 1", SystemHandle, NoHandle),
              2, "Port", "Port1", "project1").eng

\* The same, with an offline port that already has a stream block and a device.
EngineUsed ==
    EngExpandDevice(
        EngAddStreamBlock([EngineBare EXCEPT !["port2"].name = "Port1 (offline)"],
                          5, "port2", "", "SB1").eng,
        6, "project1", "port2", "Dev1", TRUE).eng

Engines == <<EngineBare, EngineUsed>>

\* The engine's next object number: one more than the greatest in use.
NextNumber(e) ==
    1 + (CHOOSE m \in {e[h].ord : h \in DOMAIN e} : \A h \in DOMAIN e : e[h].ord <= m)

(***************************************************************************)
(* Configuration documents.  A document is the sequence of its nodes in    *)
(* the order of the JSON text; a node is one key of a mapping: parent is   *)
(* the node of the enclosing mapping (0 for the Configuration mapping),    *)
(* otype the value of its "ObjectType" key ("" when the value is no object *)
(* declaration), val the scalar or the list it is assigned.                *)
(***************************************************************************)
Obj(id, parent, key, otype) ==
    [id |-> id, parent |-> parent, key |-> key, otype |-> otype, val |-> <<>>, islist |-> FALSE]
Attr(id, parent, key, value) ==
    [id |-> id, parent |-> parent, key |-> key, otype |-> "", val |-> <<value>>, islist |-> FALSE]
List(id, parent, key, values) ==
    [id |-> id, parent |-> parent, key |-> key, otype |-> "", val |-> values, islist |-> TRUE]

\* A port with a bound stream block, one modifier and one device.
DocBasic ==
    << Obj(1, 0, "Port1", "Port"),
       Obj(2, 1, "SB1", "StreamBlock"),
       Attr(3, 2, "Relation:SrcBinding", "Dev1.ipv4if"),
       Obj(4, 2, "Mod1", "RangeModifier"),
       Attr(5, 4, "Mask", "255"),
       Attr(6, 4, "Field", "IPv4.sourceAddr"),
       Attr(7, 2, "Load", "10"),
       Attr(8, 2, "IPv4.tos", "0xB8"),
       Attr(9, 2, "Headers", "IPv4"),
       Obj(10, 1, "Dev1", "EmulatedDevice"),
       Attr(11, 10, "RouterId", "1") >>

\* A second port, and a relation that names an object nobody declares.
DocUnknownRef ==
    << Obj(1, 0, "Port2", "Port"),
       Attr(2, 1, "Location", "1/2"),
       Obj(3, 1, "SB2", "StreamBlock"),
       List(4, 3, "Relation:DstBinding", <<"Dev2", "Nope.ipv4if">>),
       Attr(5, 3, "relation:srcbinding", "Dev2"),
       Obj(6, 1, "Dev2", "EmulatedDevice"),
       Obj(7, 6, "Bgp1", "BgpRouterConfig"),
       Attr(8, 7, "AsNum", "100") >>

\* Two modifiers; the first one carries a relation of its own.
DocModifierRelation ==
    << Obj(1, 0, "Port1", "Port"),
       Obj(2, 1, "SB3", "StreamBlock"),
       Attr(3, 2, "Headers", "IPv4"),
       Obj(4, 2, "ModA", "RangeModifier"),
       Attr(5, 4, "Field", "IPv4.sourceAddr"),
       Attr(6, 4, "Relation:SrcBinding", "Port1"),
       Obj(7, 2, "ModB", "RangeModifier"),
       Attr(8, 7, "Field", "IPv4.sourceAddr"),
       Attr(9, 7, "Mask", "255") >>

\* Delete directives at two levels, by type and by name.
DocDelete ==
    << List(1, 0, "DeleteExisting", <<"EmulatedDevice">>),
       Obj(2, 0, "Port1", "Port"),
       List(3, 2, "DeleteExisting", <<"Generator", "StreamBlock", "Host">>),
       Obj(4, 2, "SB1", "StreamBlock"),
       Attr(5, 4, "Load", "20"),
       Obj(6, 2, "Dev1", "EmulatedDevice"),
       Attr(7, 6, "Encapsulation", "IPv6") >>

\* Attributes the port itself does not have under the name given.
DocFallback ==
    << Obj(1, 0, "Port1", "Port"),
       Attr(2, 1, "schedulingmode", "RATE_BASED"),
       Attr(3, 1, "location", "1/1"),
       Obj(4, 1, "SB1", "StreamBlock"),
       Attr(5, 4, "Load", "30") >>

\* An attribute nothing below the port has, and a modifier without Field.
DocNotFound ==
    << Obj(1, 0, "Port1", "Port"),
       Obj(2, 1, "SB4", "StreamBlock"),
       Obj(3, 2, "ModC", "RangeModifier"),
       Attr(4, 3, "Mask", "255"),
       Attr(5, 1, "ZLast", "1"),
       Attr(6, 1, "Bogus", "1"),
       Attr(7, 1, "Location", "1/1") >>

\* Two modifiers, the first without Field.
DocNoField ==
    << Obj(1, 0, "Port1", "Port"),
       Obj(2, 1, "SB5", "StreamBlock"),
       Obj(3, 2, "ModD", "RangeModifier"),
       Attr(4, 3, "Mask", "255"),
       Obj(5, 2, "ModE", "RangeModifier"),
       Attr(6, 5, "Field", "IPv4.sourceAddr") >>

\* An attribute of the port's generator, with a value the engine refuses.
DocBadValue ==
    << Obj(1, 0, "Port1", "Port"),
       Attr(2, 1, "schedulingmode", InvalidValue),
       Obj(3, 1, "SB6", "StreamBlock") >>

\* An object of a type the engine does not have.
DocBadType ==
    << Obj(1, 0, "Port1", "Port"),
       Obj(2, 1, "Gadget1", "Widget"),
       Obj(3, 1, "SB7", "StreamBlock") >>

\* Delete directives written as a string at the top and by name in the port.
DocDeleteByName ==
    << Attr(1, 0, "DeleteExisting", "EmulatedDevice"),
       Obj(2, 0, "Port1", "Port"),
       List(3, 2, "DeleteExisting", <<"SB1">>),
       Obj(4, 2, "SB8", "StreamBlock") >>

\* A relation that resolves, then one that names an object nobody declares,
\* with a second owner and a modifier behind them.
DocPartial ==
    << Obj(1, 0, "Port1", "Port"),
       Obj(2, 1, "Dev9", "EmulatedDevice"),
       Obj(3, 1, "SB9", "StreamBlock"),
       Attr(4, 3, "Relation:DstBinding", "Dev9"),
       Attr(5, 3, "Relation:SrcBinding", "Ghost"),
       Obj(6, 1, "SB9b", "StreamBlock"),
       Attr(7, 6, "Relation:SrcBinding", "Dev9"),
       Obj(8, 6, "ModF", "RangeModifier"),
       Attr(9, 8, "Field", "IPv4.sourceAddr") >>

\* Two stream blocks with a modifier of the same name each: the first bound
\* at both ends, one end to a list of names; the second with a relation that
\* is no binding.
DocBindings ==
    << Obj(1, 0, "Port1", "Port"),
       Obj(2, 1, "Dev11", "EmulatedDevice"),
       Obj(3, 1, "SB11", "StreamBlock"),
       Attr(4, 3, "Headers", "IPv4"),
       List(5, 3, "Relation:DstBinding", <<"Dev11.ipv4if", "Dev11">>),
       Attr(6, 3, "relation:SRCBINDING", "Dev11"),
       Obj(7, 3, "Mod", "RangeModifier"),
       Attr(8, 7, "Field", "IPv4.sourceAddr"),
       Obj(9, 1, "SB12", "StreamBlock"),
       Attr(10, 9, "Headers", "IPv4"),
       Attr(11, 9, "Relation:ExpectedRx", "Port1"),
       Obj(12, 9, "Mod", "RangeModifier"),
       Attr(13, 12, "Field", "IPv4.sourceAddr") >>

\* A delete directive with nothing to delete.
DocEmptyDirective ==
    << Obj(1, 0, "Port1", "Port"),
       List(2, 1, "DeleteExisting", <<>>),
       Obj(3, 1, "SB13", "StreamBlock") >>

\* One name declared twice: for a protocol object under two devices, and for
\* an object of another type under a stream block.
DocSameName ==
    << Obj(1, 0, "Port1", "Port"),
       Obj(2, 1, "Dev14", "EmulatedDevice"),
       Obj(3, 2, "Bgp", "BgpRouterConfig"),
       Attr(4, 3, "AsNum", "100"),
       Obj(5, 1, "Dev15", "EmulatedDevice"),
       Obj(6, 5, "Bgp", "BgpRouterConfig"),
       Attr(7, 6, "AsNum", "200"),
       Obj(8, 1, "SB16", "StreamBlock"),
       Obj(9, 8, "Dev14", "Ipv4If") >>

Documents ==
    << DocBasic, DocUnknownRef, DocModifierRelation, DocDelete, DocFallback, DocNotFound,
       DocNoField, DocBadValue, DocBadType, DocDeleteByName, DocPartial, DocBindings,
       DocEmptyDirective, DocSameName >>

RECURSIVE Reverse(_)
Reverse(q) == IF q = <<>> THEN <<>> ELSE Reverse(Tail(q)) \o <<Head(q)>>

\* The same mapping written with its keys in another order.
FileOrders == {"written", "reversed"}
Text(d, order) == IF order = "reversed" THEN Reverse(Documents[d]) ELSE Documents[d]

NodeOf(d, id) == CHOOSE nd \in Range(Documents[d]) : nd.id = id

\* objectdict.keys() of the mapping at node `at`, without the keys in drop.
Keys(text, at, drop) ==
    LET mine == SelectSeq(text, LAMBDA nd : nd.parent = at /\ nd.key \notin drop)
    IN  [i \in 1..Len(mine) |-> mine[i].key]

\* __addObject looping over objectdict.keys() as they come.
UnsortedKeys(text, at, drop) == Keys(text, at, drop)

\* sorted(objectdict.keys())
SortedKeys(text, at, drop) == Sorted(Keys(text, at, drop))

HasKey(text, at, key) == \E i \in 1..Len(text) : text[i].parent = at /\ text[i].key = key
Entry(text, at, key) == CHOOSE nd \in Range(text) : nd.parent = at /\ nd.key = key

\* str(value), as it appears in messages and in the engine's calls.
ValueText(nd) == IF nd.islist THEN "[" \o Join(nd.val, ", ") \o "]" ELSE nd.val[1]

\* bool(value)
Truthy(nd) == IF nd.islist THEN nd.val # <<>> ELSE nd.val[1] # ""

(***************************************************************************)
(* External calls.  Every call of self.stc that creates, configures,       *)
(* performs, deletes or applies is recorded, and so are the reads of the   *)
(* fallback search: op, the object as passed (obj), the type, attribute or *)
(* command (arg), the value (val), the object the engine acts on or        *)
(* returns (res), whether the call succeeds (ok), the source line of the   *)
(* call (line) and the line of the caller of __config (via, else 0).       *)
(***************************************************************************)
Ev(op, obj, arg, val, res, ok, line, via) ==
    [op |-> op, obj |-> obj, arg |-> arg, val |-> val, res |-> res, ok |-> ok,
     line |-> line, via |-> via]

\* The result of __findAttribute: resultdict, the reads made, and whether an
\* engine read raised.
Found(object, attribute, ddn, found, evs, raised) ==
    [object |-> object, attribute |-> attribute, ddn |-> ddn, foundmatch |-> found,
     evs |-> evs, raised |-> raised]

\* stc.perform("GetObjectInfo", object=h)["ObjectType"]
ObjectTypeOf(e, h) == e[h].type

\* next((x for x in attributelist if x.lower() == attribute.lower()), None)
MatchingAttribute(e, h, attribute) ==
    LET first(hits) == IF hits = {} THEN "" ELSE CHOOSE x \in hits : TRUE
    IN  first({x \in TypeAttrs(e[h].type) : Lower(x) = Lower(attribute)})

RECURSIVE FindAttribute(_, _, _, _)
RECURSIVE FindInChildren(_, _, _, _, _)

\* The loop over the children of `object`: the first child whose subtree has the
\* attribute stops it.
FindInChildren(e, object, kids, attribute, topmost) ==
    LET after(evs, rest) == [rest EXCEPT !.evs = evs \o @]
        below(r) ==
            IF r.foundmatch
            THEN Found(r.object, r.attribute,
                       (IF topmost THEN object ELSE ObjectTypeOf(e, object)) \o "." \o r.ddn,
                       TRUE,
                       r.evs \o (IF topmost THEN <<>>
                                 ELSE <<Ev("perform", object, "GetObjectInfo", "", object,
                                           TRUE, 3434, 0)>>),
                       FALSE)
            ELSE after(r.evs, FindInChildren(e, object, Tail(kids), attribute, topmost))
    IN  IF kids = <<>> THEN Found(object, attribute, object, FALSE, <<>>, FALSE)
        ELSE below(FindAttribute(e, Head(kids), attribute, FALSE))

\* __findAttribute(object, attribute, _topmost)
FindAttribute(e, object, attribute, topmost) ==
    LET after(evs, rest) == [rest EXCEPT !.evs = evs \o @]
        with(m) ==
            IF m # ""
            THEN Found(object, m, IF topmost THEN object ELSE ObjectTypeOf(e, object), TRUE,
                       <<Ev("get", object, "", "", object, TRUE, 3406, 0),
                         Ev("get", object, m, "", object, TRUE, 3414, 0)>>
                         \o (IF topmost THEN <<>>
                             ELSE <<Ev("perform", object, "GetObjectInfo", "", object,
                                       TRUE, 3419, 0)>>),
                       FALSE)
            ELSE after(<<Ev("get", object, "", "", object, TRUE, 3406, 0),
                         Ev("get", object, "children", "", object, TRUE, 3426, 0)>>,
                       FindInChildren(e, object, Children(e, object), attribute, topmost))
    IN  IF ~Alive(e, object)
        THEN Found(object, attribute, object, FALSE,
                   <<Ev("get", object, "", "", NoHandle, FALSE, 3406, 0)>>, TRUE)
        ELSE with(MatchingAttribute(e, object, attribute))

\* The message of the error __config raises when the search finds nothing.
ConfigError(attribute, value) ==
    "An error occurred while processing '" \o attribute \o "' = " \o value

\* The message of an error the engine raises.
EngineError(what) == "stc: " \o what

\* The target and attribute of the configure call __config re-issues.
Reissue(found) == [object |-> found.ddn, attribute |-> found.attribute]

\* __config without the test of resultdict["foundmatch"].
ConfigUnchecked(e, object, attribute, value, via) ==
    LET first == Ev("config", object, attribute, value, NoHandle, FALSE, 3361, via)
        again(evs, to, ok) ==
            [evs |-> Append(evs, Ev("config", to.object, to.attribute, value,
                                    IF ok THEN EngResolve(e, to.object) ELSE NoHandle,
                                    ok, 3382, via)),
             err |-> IF ok THEN ""
                     ELSE EngineError("config " \o to.object \o " " \o to.attribute)]
        reissue(evs, to) == again(evs, to, EngConfigOk(e, to.object, to.attribute, value))
        search(found) ==
            IF found.raised
            THEN [evs |-> <<first>> \o found.evs, err |-> EngineError("get " \o object)]
            ELSE reissue(<<first>> \o found.evs, Reissue(found))
    IN  IF EngConfigOk(e, object, attribute, value)
        THEN [evs |-> <<Ev("config", object, attribute, value, EngResolve(e, object),
                           TRUE, 3361, via)>>,
              err |-> ""]
        ELSE search(FindAttribute(e, object, attribute, TRUE))

\* __config with the search made whether the direct configure call succeeds or not.
ConfigSearching(e, object, attribute, value, via) ==
    LET first == Ev("config", object, attribute, value, NoHandle, FALSE, 3361, via)
        again(evs, to, ok) ==
            [evs |-> Append(evs, Ev("config", to.object, to.attribute, value,
                                    IF ok THEN EngResolve(e, to.object) ELSE NoHandle,
                                    ok, 3382, via)),
             err |-> IF ok THEN ""
                     ELSE EngineError("config " \o to.object \o " " \o to.attribute)]
        reissue(evs, to) == again(evs, to, EngConfigOk(e, to.object, to.attribute, value))
        search(found) ==
            IF found.raised
            THEN [evs |-> <<first>> \o found.evs, err |-> EngineError("get " \o object)]
            ELSE IF ~found.foundmatch
            THEN [evs |-> <<first>> \o found.evs, err |-> ConfigError(attribute, value)]
            ELSE reissue(<<first>> \o found.evs, Reissue(found))
        searched(found) ==
            [evs |-> <<Ev("config", object, attribute, value, EngResolve(e, object),
                          TRUE, 3361, via)>> \o found.evs,
             err |-> ""]
    IN  IF EngConfigOk(e, object, attribute, value)
        THEN searched(FindAttribute(e, object, attribute, TRUE))
        ELSE search(FindAttribute(e, object, attribute, TRUE))

\* __config(object, attribute, value): the calls made and the error raised ("" when
\* the call returns).
Config(e, object, attribute, value, via) ==
    LET first == Ev("config", object, attribute, value, NoHandle, FALSE, 3361, via)
        again(evs, to, ok) ==
            [evs |-> Append(evs, Ev("config", to.object, to.attribute, value,
                                    IF ok THEN EngResolve(e, to.object) ELSE NoHandle,
                                    ok, 3382, via)),
             err |-> IF ok THEN ""
                     ELSE EngineError("config " \o to.object \o " " \o to.attribute)]
        reissue(evs, to) == again(evs, to, EngConfigOk(e, to.object, to.attribute, value))
        search(found) ==
            IF found.raised
            THEN [evs |-> <<first>> \o found.evs, err |-> EngineError("get " \o object)]
            ELSE IF ~found.foundmatch
            THEN [evs |-> <<first>> \o found.evs, err |-> ConfigError(attribute, value)]
            ELSE reissue(<<first>> \o found.evs, Reissue(found))
    IN  IF EngConfigOk(e, object, attribute, value)
        THEN [evs |-> <<Ev("config", object, attribute, value, EngResolve(e, object),
                           TRUE, 3361, via)>>,
              err |-> ""]
        ELSE search(FindAttribute(e, object, attribute, TRUE))

\* The registry left as it is.
PutNothing(objs, name, handle) == objs

(***************************************************************************)
(* The loader's own state and the results of its handlers.                 *)
(*   objects   : name -> handle           (self.objects)                   *)
(*   relations : <<[owner, attrs: <<[key, val, islist]>>]>> (self.relations)*)
(*   modifiers : <<[name, parent, type, node, drop]>>  (self.modifiers);   *)
(*               node is the declaration the "attributes" mapping was      *)
(*               copied from, drop the keys deleted from it since          *)
(* A handler's result (Upd) holds these after the handler, whether it      *)
(* returned or raised, the engine, the calls made, the error raised ("" if *)
(* none) and the mapping whose processing it starts (push).                *)
(***************************************************************************)
Put(f, k, v) == [x \in DOMAIN f \cup {k} |-> IF x = k THEN v ELSE f[x]]
Lookup(f, k) == IF k \in DOMAIN f THEN f[k] ELSE NoHandle

Upd(objs, rels, mods, e, n, evs, er, push) ==
    [objects |-> objs, relations |-> rels, modifiers |-> mods, eng |-> e, nexth |-> n,
     evs |-> evs, err |-> er, push |-> push]

\* The items of a DeleteExisting value: a list, or a string made a list.
Items(nd) == nd.val

\* A mapping about to be processed by __addObject: its node, the handle it
\* configures, the keys already taken out of it, the DeleteExisting items still
\* to honour (stage "enter") or the sorted keys left to visit (stage "iter").
Frame(text, at, parent, drop, ret) ==
    LET directive == /\ "DeleteExisting" \notin drop
                     /\ HasKey(text, at, "DeleteExisting")
                     /\ Truthy(Entry(text, at, "DeleteExisting"))
    IN  [node |-> at, parent |-> parent, drop |-> drop, ret |-> ret,
         stage |-> IF directive THEN "enter" ELSE "iter",
         items |-> IF directive THEN Items(Entry(text, at, "DeleteExisting")) ELSE <<>>,
         keys |-> IF directive THEN <<>> ELSE SortedKeys(text, at, drop)]

\* getObject(name) without an object type: the registry alone is consulted.
GetObject(objs, name) == Lookup(objs, name)

\* stc.perform("GetObjects", ClassName=objecttype, Condition="Name = " + name)
\* ["ObjectList"].split()
EngGetNamed(e, class, name) ==
    ByOrd(e, {h \in DOMAIN e : Lower(e[h].type) = Lower(class) /\ e[h].name = name})

MoreThanOne(name) == "There is more than one object with the name '" \o name \o "'."

\* getObject that takes the entry of a registered name out of the registry.
GetObjectEvicting(objs, e, name, objecttype) ==
    IF name \in DOMAIN objs
    THEN [objects |-> [x \in DOMAIN objs \ {name} |-> objs[x]], handle |-> objs[name],
          evs |-> <<>>, err |-> ""]
    ELSE [objects |-> objs, handle |-> NoHandle, evs |-> <<>>, err |-> ""]

\* getObject that settles for the first of several objects of the name.
GetObjectFirstMatch(objs, e, name, objecttype) ==
    LET result(o, h, evs, er) == [objects |-> o, handle |-> h, evs |-> evs, err |-> er]
        query(ok, res) == Ev("perform", SystemHandle, "GetObjects", objecttype, res, ok, 2896, 0)
        search(objecthandlelist) ==
            IF Len(objecthandlelist) = 0
            THEN result(objs, NoHandle, <<query(TRUE, "")>>, "")
            ELSE result(Put(objs, name, objecthandlelist[1]), objecthandlelist[1],
                        <<query(TRUE, Join(objecthandlelist, " "))>>, "")
    IN  IF name \in DOMAIN objs THEN result(objs, objs[name], <<>>, "")
        ELSE IF objecttype = "" THEN result(objs, NoHandle, <<>>, "")
        ELSE IF Canon(objecttype) = ""
        THEN result(objs, NoHandle, <<query(FALSE, NoHandle)>>,
                    EngineError("GetObjects " \o objecttype))
        ELSE search(EngGetNamed(e, objecttype, name))

\* getObject(name, objecttype) (lines 2892-2911); objecttype "" when it is not
\* given.  The registry afterwards, the handle returned (NoHandle for None),
\* the calls made and the error raised.
GetObjectOfType(objs, e, name, objecttype) ==
    LET result(o, h, evs, er) == [objects |-> o, handle |-> h, evs |-> evs, err |-> er]
        query(ok, res) == Ev("perform", SystemHandle, "GetObjects", objecttype, res, ok, 2896, 0)
        search(objecthandlelist) ==
            IF Len(objecthandlelist) > 1
            THEN result(objs, NoHandle, <<query(TRUE, Join(objecthandlelist, " "))>>,
                        MoreThanOne(name))
            ELSE IF Len(objecthandlelist) = 0
            THEN result(objs, NoHandle, <<query(TRUE, "")>>, "")
            ELSE result(Put(objs, name, objecthandlelist[1]), objecthandlelist[1],
                        <<query(TRUE, objecthandlelist[1])>>, "")
    IN  IF name \in DOMAIN objs THEN result(objs, objs[name], <<>>, "")
        ELSE IF objecttype = "" THEN result(objs, NoHandle, <<>>, "")
        ELSE IF Canon(objecttype) = ""
        THEN result(objs, NoHandle, <<query(FALSE, NoHandle)>>,
                    EngineError("GetObjects " \o objecttype))
        ELSE search(EngGetNamed(e, objecttype, name))

\* The by-type deletion of one DeleteExisting item: every failure is swallowed.
RECURSIVE DeleteEach(_, _)
DeleteEach(e, handles) ==
    LET then(h, ok, rest) ==
            [eng |-> rest.eng,
             evs |-> <<Ev("delete", h, "", "", h, ok, 3116, 0)>> \o rest.evs]
        one(h, ok) == then(h, ok, DeleteEach(IF ok THEN EngDelete(e, h) ELSE e, Tail(handles)))
    IN  IF handles = <<>> THEN [eng |-> e, evs |-> <<>>]
        ELSE one(Head(handles), EngDeleteOk(e, Head(handles)))

\* stc.get(port, "AffiliationPort-Sources").split()
AffiliatedTo(e, port) == ByOrd(e, {h \in DOMAIN e : e[h].aff = port})

DeviceTags == {"emulateddevice", "device", "router", "host"}

\* The loop over the DeleteExisting items (lines 3093-3118).
RECURSIVE DeleteItems(_, _, _, _)
DeleteItems(objs, e, parent, items) ==
    LET before(evs, rest) == [rest EXCEPT !.evs = evs \o @]
        failed(ev, what) == [eng |-> e, evs |-> <<ev>>, err |-> EngineError(what)]
        \* a registered name: delete that object
        byName(h) ==
            IF EngDeleteOk(e, h)
            THEN before(<<Ev("delete", h, "", "", h, TRUE, 3100, 0)>>,
                        DeleteItems(objs, EngDelete(e, h), parent, Tail(items)))
            ELSE failed(Ev("delete", h, "", "", NoHandle, FALSE, 3100, 0), "delete " \o h)
        deleted(item, done) ==
            before(<<Ev("perform", parent, "GetObjects", item, NoHandle, TRUE, 3106, 0),
                     Ev("perform", parent, "GetObjectInfo", "", parent, TRUE, 3108, 0)>>
                     \o done.evs,
                   DeleteItems(objs, done.eng, parent, Tail(items)))
        \* an object type: delete every object of the type under parent
        byType(item) ==
            IF ~Alive(e, parent) \/ Canon(item) = ""
            THEN failed(Ev("perform", parent, "GetObjects", item, NoHandle, FALSE, 3106, 0),
                        "GetObjects " \o item)
            ELSE deleted(item,
                         DeleteEach(e, EngGetObjects(e, parent, item)
                                       \o (IF Lower(ObjectTypeOf(e, parent)) = "port"
                                              /\ item \in DeviceTags
                                           THEN AffiliatedTo(e, parent) ELSE <<>>)))
        one(item, objecthandle) ==
            IF objecthandle # NoHandle THEN byName(objecthandle) ELSE byType(item)
    IN  IF items = <<>> THEN [eng |-> e, evs |-> <<>>, err |-> ""]
        ELSE one(Lower(Head(items)), GetObject(objs, Lower(Head(items))))

\* __addObject without its call of __purgeObjects.
NoPurge(objs, e) == objs

\* __purgeObjects: the entries whose handle the engine still knows.
PurgeObjects(objs, e) ==
    [name \in {x \in DOMAIN objs : Alive(e, objs[x])} |-> objs[name]]

\* The DeleteExisting block of __addObject (lines 3079-3121) for the mapping on
\* top of the stack: the deletions, then the purge.
DeleteExistingBlock(objs, e, frame) ==
    LET after(done) ==
            [objects |-> IF done.err # "" THEN objs ELSE PurgeObjects(objs, done.eng),
             eng |-> done.eng, evs |-> done.evs, err |-> done.err]
    IN  after(DeleteItems(objs, e, frame.parent, frame.items))

\* createStreamBlock(port, name, parametersdict) (lines 1142-1171)
CreateStreamBlock(objs, rels, mods, e, n, text, at, port, name) ==
    LET drop == IF HasKey(text, at, "Headers") THEN {"Headers"} ELSE {}
        created(made, sb) ==
            Upd(Put(objs, name, sb), rels, mods, made.eng, made.next,
                <<Ev("create", port, "StreamBlock", name, sb, TRUE, 1164, 0),
                  Ev("perform", sb, "StreamBlockUpdate", "", sb, TRUE, 1165, 0)>>,
                "", <<Frame(text, at, sb, drop, "object")>>)
        create(frameconfig) ==
            created(EngAddStreamBlock(e, n, port, frameconfig, name), NewHandle("StreamBlock", n))
    IN  IF name \in DOMAIN objs
        THEN Upd(objs, rels, mods, e, n, <<>>, "", <<Frame(text, at, objs[name], drop, "object")>>)
        ELSE IF ~Alive(e, port)
        THEN Upd(objs, rels, mods, e, n,
                 <<Ev("create", port, "StreamBlock", name, NoHandle, FALSE, 1164, 0)>>,
                 EngineError("create StreamBlock"), <<>>)
        ELSE create(IF HasKey(text, at, "Headers")
                    THEN ValueText(Entry(text, at, "Headers")) ELSE "")

\* The DeviceGen*Params objects createDevice builds under the generation
\* parameters (lines 1222-1239): their types, in order.
DeviceParams(encapsulation, vlancount) ==
    <<"DeviceGenEthIIIfParams">>
    \o [i \in 1..vlancount |-> "DeviceGenVlanIfParams"]
    \o (IF Lower(encapsulation) \in {"ipv4", "ipv4v6"} THEN <<"DeviceGenIpv4IfParams">> ELSE <<>>)
    \o (IF Lower(encapsulation) \in {"ipv6", "ipv4v6"}
        THEN <<"DeviceGenIpv6IfParams", "DeviceGenIpv6IfParams">> ELSE <<>>)

RECURSIVE CreateParams(_, _, _, _, _)
CreateParams(e, n, edp, types, line) ==
    LET before(ev, rest) == [rest EXCEPT !.evs = <<ev>> \o @]
    IN  IF types = <<>> THEN [eng |-> e, next |-> n, evs |-> <<>>]
        ELSE before(Ev("create", edp, Head(types), "", NewHandle(Head(types), n), TRUE, line, 0),
                    CreateParams(EngAdd(e, n, Head(types), "", edp, NoHandle), n + 1, edp,
                                 Tail(types), line))

\* createDevice(port, name, parametersdict) (lines 1195-1249)
CreateDevice(objs, rels, mods, e, n, proj, text, at, port, name) ==
    LET drop == {k \in {"Encapsulation", "VlanCount"} : HasKey(text, at, k)}
        expanded(edp, params, made, device) ==
            Upd(Put(objs, name, device), rels, mods, made.eng, made.next,
                <<Ev("create", proj, "EmulatedDeviceGenParams", name, edp, TRUE, 1216, 0)>>
                  \o params.evs
                  \o <<Ev("perform", edp, "DeviceGenConfigExpand", "", device, TRUE, 1242, 0)>>,
                "", <<Frame(text, at, device, drop, "object")>>)
        expand(edp, withIpv4, params) ==
            expanded(edp, params,
                     EngExpandDevice(params.eng, params.next, proj, port, name, withIpv4),
                     NewHandle("EmulatedDevice", params.next))
        create(encapsulation, vlancount) ==
            expand(NewHandle("EmulatedDeviceGenParams", n),
                   Lower(encapsulation) \in {"ipv4", "ipv4v6"},
                   CreateParams(EngAdd(e, n, "EmulatedDeviceGenParams", "", proj, NoHandle),
                                n + 1, NewHandle("EmulatedDeviceGenParams", n),
                                DeviceParams(encapsulation, vlancount), 1222))
    IN  IF name \in DOMAIN objs
        THEN Upd(objs, rels, mods, e, n, <<>>, "", <<Frame(text, at, objs[name], drop, "object")>>)
        ELSE IF ~Alive(e, proj)
        THEN Upd(objs, rels, mods, e, n,
                 <<Ev("create", proj, "EmulatedDeviceGenParams", name, NoHandle, FALSE, 1216, 0)>>,
                 EngineError("create EmulatedDeviceGenParams"), <<>>)
        ELSE create(IF HasKey(text, at, "Encapsulation")
                    THEN ValueText(Entry(text, at, "Encapsulation")) ELSE "IPv4",
                    IF HasKey(text, at, "VlanCount")
                    THEN DecValue(ValueText(Entry(text, at, "VlanCount"))) ELSE 0)

\* parent + "." + key
ModifierName(parent, key) == parent \o "." \o key

HasModifier(mods, name) == \E i \in 1..Len(mods) : mods[i].name = name

\* The modifier branch without the test for a name that is queued already.
DeferModifierAgain(mods, parent, key, otype, at) ==
    Append(mods, [name |-> ModifierName(parent, key), parent |-> parent,
                  type |-> otype, node |-> at, drop |-> {}])

\* The modifier branch of __addObject (lines 3140-3156): queue it, or skip a
\* name that is queued already.
DeferModifier(mods, parent, key, otype, at) ==
    IF HasModifier(mods, ModifierName(parent, key)) THEN mods
    ELSE Append(mods, [name |-> ModifierName(parent, key), parent |-> parent,
                       type |-> otype, node |-> at, drop |-> {}])

\* re.search("routerconfig$", ...) or "hostconfig$" or "blockconfig$"
IsProtocolConfig(otype) ==
    EndsWithI("routerconfig", otype) \/ EndsWithI("hostconfig", otype) \/ EndsWithI("blockconfig", otype)

\* re.match("port[0-9]+", handle, flags=re.I)
IsPortHandle(h) == Len(h) > 4 /\ Lower(SubSeq(h, 1, 4)) = "port" /\ IsDigit(Ch(h, 5))

\* The branch of __addObject for every other object type (lines 3157-3214).
\* No document of this model declares a Dot1xEap...Config or a Bgp...RouteConfig
\* object, the two types lines 3171-3188 and 3205-3209 single out.
AddGeneric(objs, rels, mods, e, n, text, at, parent, key, otype) ==
    LET failed(ev, what) == Upd(objs, rels, mods, e, n, <<ev>>, EngineError(what), <<>>)
        added(h, made, evs) ==
            Upd(Put(objs, key, h), rels, mods, made.eng, made.next, evs, "",
                <<Frame(text, at, h, {}, "object")>>)
        protocol(h) ==
            added(h, [eng |-> EngAdd(e, n, Canon(otype), "", parent, NoHandle), next |-> n + 1],
                  <<Ev("perform", parent, "ProtocolCreateCommand", otype, h, TRUE, 3163, 0)>>)
        create(h) ==
            added(h, EngCreate(e, n, Canon(otype), key, parent),
                  <<Ev("create", parent, otype, key, h, TRUE, 3199, 0)>>
                    \o (IF IsPortHandle(h)
                        THEN <<Ev("config", h, "AppendLocationToPortName", "False", h, TRUE,
                                  3203, 0)>>
                        ELSE <<>>))
    IN  IF IsProtocolConfig(otype)
        THEN IF ~Alive(e, parent) \/ Canon(otype) = ""
             THEN failed(Ev("perform", parent, "ProtocolCreateCommand", otype, NoHandle, FALSE,
                            3163, 0),
                         "ProtocolCreateCommand " \o otype)
             ELSE protocol(NewHandle(Canon(otype), n))
        ELSE IF key \in DOMAIN objs
        THEN Upd(objs, rels, mods, e, n, <<>>, "", <<Frame(text, at, objs[key], {}, "object")>>)
        ELSE IF ~Alive(e, parent) \/ Canon(otype) = ""
        THEN failed(Ev("create", parent, otype, key, NoHandle, FALSE, 3199, 0), "create " \o otype)
        ELSE create(NewHandle(Canon(otype), n))

\* __modifyPDUKey(attribute)
ModifyPDUKey(attribute) ==
    SubI("Custom.", "custom:Custom.",
      SubI("TCP.", "tcp:Tcp.",
        SubI("UDP.", "udp:Udp.",
          SubI("IPv6.", "ipv6:IPv6.",
            SubI("IPv4.", "ipv4:IPv4.",
              SubI("Vlan.", "ethernet:EthernetII.vlans.vlan.",
                SubI("EthernetII.", "ethernet:EthernetII.", attribute)))))))

\* re.search("\.tos|\.diffserv", attribute, flags=re.I)
IsTosKey(attribute) == SearchI(".tos", attribute) \/ SearchI(".diffserv", attribute)

\* re.search("Relation:", attribute, flags=re.I)
IsRelationKey(attribute) == SearchI("Relation:", attribute)

\* self.relations[parent][key] = value (lines 3230-3233): dictionaries keep the
\* place of a key that is assigned again.
SetRelation(rels, parent, key, nd) ==
    LET item == [key |-> key, val |-> nd.val, islist |-> nd.islist]
        setIn(attrs) ==
            IF \E j \in 1..Len(attrs) : attrs[j].key = key
            THEN [j \in 1..Len(attrs) |-> IF attrs[j].key = key THEN item ELSE attrs[j]]
            ELSE Append(attrs, item)
    IN  IF \E i \in 1..Len(rels) : rels[i].owner = parent
        THEN [i \in 1..Len(rels) |->
                IF rels[i].owner = parent
                THEN [owner |-> parent, attrs |-> setIn(rels[i].attrs)] ELSE rels[i]]
        ELSE Append(rels, [owner |-> parent, attrs |-> <<item>>])

\* int(hexstring, 16): the value, or -1 where Python raises ValueError.
HexDigits(s) == IF Len(s) >= 2 /\ Lower(SubSeq(s, 1, 2)) = "0x" THEN SubSeq(s, 3, Len(s)) ELSE s

RECURSIVE HexValue(_)
HexValue(s) ==
    IF s = "" THEN 0
    ELSE 16 * HexValue(SubSeq(s, 1, Len(s) - 1)) + (IndexOf(LowerChar(Ch(s, Len(s))), HexChars) - 1)

ParseHex(s) ==
    LET value(d) == IF d = "" \/ \E i \in 1..Len(d) : IndexOf(LowerChar(Ch(d, i)), HexChars) = 0
                    THEN -1 ELSE HexValue(d)
    IN  value(HexDigits(s))

\* __setIPv4Tos with the masks of precedence and dBit one bit to the right.
TosFieldsShifted(value) ==
    [precedence |-> (value \div 16) % 8,
     dBit |-> (value \div 8) % 2,
     tBit |-> (value \div 8) % 2,
     rBit |-> (value \div 4) % 2,
     mBit |-> (value \div 2) % 2,
     reserved |-> value % 2]

\* __setIPv4Tos without the last bit of the byte.
TosFieldsEven(value) ==
    [precedence |-> (value \div 32) % 8,
     dBit |-> (value \div 16) % 2,
     tBit |-> (value \div 8) % 2,
     rBit |-> (value \div 4) % 2,
     mBit |-> (value \div 2) % 2,
     reserved |-> 0]

\* The six fields __setIPv4Tos computes from the byte (lines 3467-3472).
TosFields(value) ==
    [precedence |-> (value \div 32) % 8,
     dBit |-> (value \div 16) % 2,
     tBit |-> (value \div 8) % 2,
     rBit |-> (value \div 4) % 2,
     mBit |-> (value \div 2) % 2,
     reserved |-> value % 2]

TosText(f) ==
    "precedence=" \o Dec(f.precedence) \o " dBit=" \o Dec(f.dBit) \o " tBit=" \o Dec(f.tBit)
    \o " rBit=" \o Dec(f.rBit) \o " mBit=" \o Dec(f.mBit) \o " reserved=" \o Dec(f.reserved)

\* __setIPv4Tos(streamblock, attribute, hexstring)
SetIPv4Tos(e, streamblock, hexstring) ==
    LET object == streamblock \o ".ipv4:IPv4.tosdiffserv.tos"
        config(value, ok) ==
            IF value < 0
            THEN [evs |-> <<>>, err |-> "ValueError: invalid literal for int() with base 16"]
            ELSE [evs |-> <<Ev("config", object, "tos", TosText(TosFields(value)),
                               IF ok THEN EngResolve(e, object) ELSE NoHandle, ok, 3467, 0)>>,
                  err |-> IF ok THEN "" ELSE EngineError("config " \o object)]
    IN  config(ParseHex(hexstring),
               \A a \in DOMAIN TosFields(0) : EngConfigOk(e, object, a, "0"))

\* re.sub("tos|diffserv", "tosDiffserv.tos", attribute, flags=re.I)
RECURSIVE SubTos(_)
SubTos(s) ==
    IF s = "" THEN ""
    ELSE IF Len(s) >= 3 /\ Lower(SubSeq(s, 1, 3)) = "tos"
    THEN "tosDiffserv.tos" \o SubTos(SubSeq(s, 4, Len(s)))
    ELSE IF Len(s) >= 8 /\ Lower(SubSeq(s, 1, 8)) = "diffserv"
    THEN "tosDiffserv.tos" \o SubTos(SubSeq(s, 9, Len(s)))
    ELSE Head(s) \o SubTos(Tail(s))

MissingField == "You must specify the field attribute for a modifier."

SetDrop(mods, i, keys) == [mods EXCEPT ![i].drop = @ \cup keys]

\* createModifier(streamblock, modifiertype, parametersdict) up to its call of
\* __addObject (lines 1273-1310), for the queued modifier mods[i].
CreateModifier(objs, rels, mods, e, n, text, i) ==
    LET streamblock == mods[i].parent
        at == mods[i].node
        consumed == SetDrop(mods, i, {"Field"})
        create(object, named, reference, modifier) ==
            IF named = NoHandle
            THEN Upd(objs, rels, consumed, e, n,
                     <<Ev("get", object, "Name", "", NoHandle, FALSE, 1304, 0)>>,
                     EngineError("get " \o object), <<>>)
            ELSE IF ~Alive(e, streamblock) \/ modifier = NoHandle
            THEN Upd(objs, rels, consumed, e, n,
                     <<Ev("get", object, "Name", "", named, TRUE, 1304, 0),
                       Ev("create", streamblock, mods[i].type, reference, NoHandle, FALSE,
                          1306, 0)>>,
                     EngineError("create " \o mods[i].type), <<>>)
            ELSE Upd(objs, rels, consumed,
                     EngAdd(e, n, Canon(mods[i].type), "", streamblock, NoHandle), n + 1,
                     <<Ev("get", object, "Name", "", named, TRUE, 1304, 0),
                       Ev("create", streamblock, mods[i].type, reference, modifier, TRUE,
                          1306, 0)>>,
                     "",
                     <<Frame(text, at, modifier, mods[i].drop \cup {"Field"}, "modifier")>>)
        refer(object, named, attribute) ==
            create(object, named,
                   (IF named = NoHandle THEN "" ELSE e[named].name) \o "." \o attribute,
                   IF Canon(mods[i].type) = "" THEN NoHandle
                   ELSE NewHandle(Canon(mods[i].type), n))
        locate(object, last) ==
            refer(object, EngResolve(e, object),
                  IF SearchI("tos", last) \/ SearchI("diffserv", last) THEN SubTos(last) ELSE last)
        split(fieldlist) ==
            locate(streamblock \o "." \o Join(SubSeq(fieldlist, 1, Len(fieldlist) - 1), "."),
                   fieldlist[Len(fieldlist)])
    IN  IF "Field" \in mods[i].drop \/ ~HasKey(text, at, "Field")
        THEN Upd(objs, rels, mods, e, n, <<>>, MissingField, <<>>)
        ELSE split(SplitOn(ModifyPDUKey(ValueText(Entry(text, at, "Field"))), "."))

\* re.sub("Relation:", "", attribute, flags=re.I)
RelationAttribute(key) == SubI("Relation:", "", key)

\* Every relation taken for a binding.
NeedsUpdateAlways(attribute) == TRUE

NeedsUpdate(attribute) == Lower(attribute) \in {"srcbinding", "dstbinding"}

SuffixAt(objectname) ==
    LET at(i) == IF i > 0 /\ i < Len(objectname) THEN i ELSE 0
    IN  at(IndexOf(".", objectname))

BaseName(objectname) ==
    LET upto(i) == IF i = 0 THEN objectname ELSE SubSeq(objectname, 1, i - 1)
    IN  upto(SuffixAt(objectname))

\* The descendant notation stripped off and never added back.
NoSuffix(objectname) == ""

Suffix(objectname) ==
    LET from(i) == IF i = 0 THEN "" ELSE SubSeq(objectname, i, Len(objectname))
    IN  from(SuffixAt(objectname))

UnknownReference(attribute, objectname) ==
    "An error occurred while processing '" \o attribute \o "' = '" \o objectname
    \o "'\nUnable to locate the object."

\* The loop over the names of one relation value (lines 3276-3301).
RECURSIVE ResolveNames(_, _, _, _)
ResolveNames(objs, e, attribute, names) ==
    LET then(objecthandle, reading, rest) ==
            [objectlist |-> <<objecthandle>> \o rest.objectlist,
             evs |-> reading \o rest.evs, err |-> rest.err]
        got(path, objecthandle, reading) ==
            IF objecthandle = NoHandle
            THEN [objectlist |-> <<>>, evs |-> reading, err |-> EngineError("get " \o path)]
            ELSE then(objecthandle, reading, ResolveNames(objs, e, attribute, Tail(names)))
        descend(path, objecthandle) ==
            got(path, objecthandle,
                <<Ev("get", path, "Handle", "", objecthandle, objecthandle # NoHandle, 3299, 0)>>)
        one(objectname, base, suffix) ==
            IF base \notin DOMAIN objs
            THEN [objectlist |-> <<>>, evs |-> <<>>,
                  err |-> UnknownReference(attribute, objectname)]
            ELSE IF suffix = "" THEN got(objs[base], objs[base], <<>>)
            ELSE descend(objs[base] \o suffix, EngResolve(e, objs[base] \o suffix))
    IN  IF names = <<>> THEN [objectlist |-> <<>>, evs |-> <<>>, err |-> ""]
        ELSE one(Head(names), BaseName(Head(names)), Suffix(Head(names)))

\* __resolveRelations with the lookup of a name in a try block that passes.
SkipUnresolved(objs, e, owner, item) ==
    LET configured(r, c) == [evs |-> r.evs \o c.evs, err |-> c.err]
        apply(attribute, r) ==
            IF r.err # "" \/ Len(r.objectlist) = 0 THEN [evs |-> r.evs, err |-> ""]
            ELSE configured(r, Config(e, owner, attribute, Join(r.objectlist, " "), 3305))
        resolve(attribute) == apply(attribute, ResolveNames(objs, e, attribute, item.val))
    IN  resolve(RelationAttribute(item.key))

\* One pass of the inner loop of __resolveRelations (lines 3261-3305): the
\* relation `item` of `owner`.
ResolveRelation(objs, e, owner, item) ==
    LET configured(r, c) == [evs |-> r.evs \o c.evs, err |-> c.err]
        apply(attribute, r) ==
            IF r.err # "" \/ Len(r.objectlist) = 0 THEN [evs |-> r.evs, err |-> r.err]
            ELSE configured(r, Config(e, owner, attribute, Join(r.objectlist, " "), 3305))
        resolve(attribute) == apply(attribute, ResolveNames(objs, e, attribute, item.val))
    IN  resolve(RelationAttribute(item.key))

\* The StreamBlockUpdate calls that end __resolveRelations (lines 3307-3308).
RECURSIVE UpdateStreamBlocks(_, _)
UpdateStreamBlocks(e, blocks) ==
    LET before(ev, rest) == [rest EXCEPT !.evs = <<ev>> \o @]
    IN  IF blocks = <<>> THEN [evs |-> <<>>, err |-> ""]
        ELSE IF ~Alive(e, Head(blocks))
        THEN [evs |-> <<Ev("perform", Head(blocks), "StreamBlockUpdate", "", NoHandle, FALSE,
                           3308, 0)>>,
              err |-> EngineError("StreamBlockUpdate " \o Head(blocks))]
        ELSE before(Ev("perform", Head(blocks), "StreamBlockUpdate", "", Head(blocks), TRUE,
                       3308, 0),
                    UpdateStreamBlocks(e, Tail(blocks)))

\* re.sub(r' \(offline\)', '', name)
RECURSIVE Sub(_, _, _)
Sub(pat, repl, s) ==
    LET from(i) == IF i = 0 THEN s
                   ELSE SubSeq(s, 1, i - 1) \o repl
                        \o Sub(pat, repl, SubSeq(s, i + Len(pat), Len(s)))
    IN  from(Find(pat, s))

RECURSIVE PutNames(_, _, _)
PutNames(objs, e, handles) ==
    IF handles = <<>> THEN objs
    ELSE PutNames(Put(objs, e[Head(handles)].name, Head(handles)), e, Tail(handles))

RECURSIVE PutPorts(_, _, _)
PutPorts(objs, e, ports) ==
    IF ports = <<>> THEN objs
    ELSE PutPorts(PutNames(Put(objs, Sub(" (offline)", "", e[Head(ports)].name), Head(ports)),
                           e, ChildrenOfType(e, Head(ports), "streamblock")),
                  e, Tail(ports))

\* __populateObjectsDict() visiting the devices before the ports.
PopulateDevicesFirst(e) ==
    PutPorts(PutNames(<<>>, e, ChildrenOfType(e, EngProject(e), "emulateddevice")), e,
             ChildrenOfType(e, EngProject(e), "port"))

\* __populateObjectsDict(): the ports, their stream blocks, then the devices.
PopulateObjectsDict(e) ==
    PutNames(PutPorts(<<>>, e, ChildrenOfType(e, EngProject(e), "port")), e,
             ChildrenOfType(e, EngProject(e), "emulateddevice"))

\* The arguments of one loadJson call: deleteExistingConfig, autoDeleteDevices,
\* autoDeleteStreamBlocks.
Args(reset, devices, streamblocks) ==
    [reset |-> reset, devices |-> devices, streamblocks |-> streamblocks]

DefaultArgs == Args(FALSE, FALSE, TRUE)

ArgSets == {DefaultArgs, Args(FALSE, FALSE, FALSE), Args(TRUE, FALSE, TRUE), Args(FALSE, TRUE, FALSE)}

AppendError == "AttributeError: 'str' object has no attribute 'append'"

\* item in configdict["DeleteExisting"]: membership in a list, substring of a string.
Contains(islist, val, item) ==
    IF islist THEN item \in Range(val) ELSE Find(item, val[1]) > 0

\* loadJson without lines 347-354: the DeleteExisting value as the file has it.
DirectiveAsWritten(text, a) ==
    IF HasKey(text, 0, "DeleteExisting")
    THEN [present |-> TRUE,
          items |-> Entry(text, 0, "DeleteExisting").val,
          truthy |-> IF Entry(text, 0, "DeleteExisting").islist
                     THEN Entry(text, 0, "DeleteExisting").val # <<>>
                     ELSE Entry(text, 0, "DeleteExisting").val[1] # "",
          err |-> ""]
    ELSE [present |-> FALSE, items |-> <<>>, truthy |-> FALSE, err |-> ""]

\* configdict["DeleteExisting"] after lines 347-354.
RootDirective(text, a) ==
    LET result(islist, val, failed) ==
            [present |-> HasKey(text, 0, "DeleteExisting") \/ a.devices \/ a.streamblocks,
             items |-> val,
             truthy |-> IF islist THEN val # <<>> ELSE val[1] # "",
             err |-> IF failed THEN AppendError ELSE ""]
        second(islist, val) ==
            IF a.streamblocks /\ ~Contains(islist, val, "StreamBlock")
            THEN IF islist THEN result(islist, Append(val, "StreamBlock"), FALSE)
                 ELSE result(islist, val, TRUE)
            ELSE result(islist, val, FALSE)
        first(islist, val) ==
            IF a.devices /\ ~Contains(islist, val, "EmulatedDevice")
            THEN IF islist THEN second(islist, Append(val, "EmulatedDevice"))
                 ELSE result(islist, val, TRUE)
            ELSE second(islist, val)
    IN  IF HasKey(text, 0, "DeleteExisting")
        THEN first(Entry(text, 0, "DeleteExisting").islist, Entry(text, 0, "DeleteExisting").val)
        ELSE first(TRUE, <<>>)

\* The Configuration mapping as __addObject receives it from loadJson.
RootFrame(text, a, proj) ==
    LET frame(d) ==
            [node |-> 0, parent |-> proj, drop |-> {}, ret |-> "root",
             stage |-> IF d.truthy THEN "enter" ELSE "iter",
             items |-> IF d.truthy THEN d.items ELSE <<>>,
             keys |-> IF d.truthy THEN <<>> ELSE SortedKeys(text, 0, {})]
    IN  frame(RootDirective(text, a))

\* loadJson with its last two calls exchanged: __addModifiers before
\* __resolveRelations.
ModifiersFirst(p) ==
    CASE p = "addObject"        -> "addModifiers"
      [] p = "addModifiers"     -> "resolveRelations"
      [] p = "resolveRelations" -> "idle"

\* The order in which loadJson runs its phases (lines 382-389); "idle" once
\* the last one has returned.
NextPhase(p) ==
    CASE p = "addObject"        -> "resolveRelations"
      [] p = "resolveRelations" -> "addModifiers"
      [] p = "addModifiers"     -> "idle"

\* What the branch of __addObject taken for a key does with it.
KeyKind(nd) ==
    LET object(otype) ==
            IF otype = "streamblock" THEN "streamblock"
            ELSE IF otype \in {"emulateddevice", "device", "router"} THEN "device"
            ELSE IF Find("modifier", otype) > 0 THEN "modifier"
            ELSE "object"
        other(attribute) ==
            IF IsTosKey(attribute) THEN "tos"
            ELSE IF IsRelationKey(attribute) THEN "relation"
            ELSE "attribute"
    IN  IF nd.otype # "" THEN object(Lower(nd.otype)) ELSE other(ModifyPDUKey(nd.key))

(***************************************************************************)
(* The state.                                                              *)
(***************************************************************************)
\* The greatest number of loadJson calls in one session.
MaxLoads == 2

VARIABLES
    objects,      \* self.objects
    relations,    \* self.relations
    modifiers,    \* self.modifiers
    project,      \* self.project
    eng,          \* the engine's objects
    nexth,        \* the number of the engine's next handle
    doc,          \* the document in the input file
    order,        \* the order of the keys in the file's text
    engine0,      \* the engine state the session started from
    args,         \* the arguments of the current or last loadJson call
    pc,           \* where loadJson is: "idle" outside a call, else the phase
    stack,        \* the mappings __addObject is processing, innermost last
    ri, rj,       \* __resolveRelations: the owner and the attribute reached
    updates,      \* __resolveRelations: streamblockupdaterequired
    mi, msize,    \* __addModifiers: the entry reached, the size iterated
    log,          \* the engine calls of the current or last loadJson call
    outcome,      \* "none", "running", "ok" or "raised"
    err,          \* the message of the error raised
    loads,        \* the number of loadJson calls so far
    visited,      \* the nodes __addObject has visited in this call
    queued,       \* the relations __addObject has queued under loadJson's own call
    trace,        \* one record for every finished loadJson call
    ref,          \* the trace of the session with the file in the other key order
    pass,         \* 1, or 2 once the session is repeated with the other order
    cfg,          \* the arguments of a single __config call
    call          \* the arguments and the result of a single getObject call

vars == <<objects, relations, modifiers, project, eng, nexth, doc, order, engine0, args,
          pc, stack, ri, rj, updates, mi, msize, log, outcome, err, loads, visited,
          queued, trace, ref, pass, cfg, call>>

file == <<doc, order, engine0, ref, pass, cfg, call>>
cursors == <<ri, rj, updates, mi, msize>>

NoCfg == [object |-> "", attribute |-> "", value |-> ""]
NoCall == [name |-> "", objecttype |-> "", handle |-> ""]

\* The state after StcGen.__init__ on an engine in one of the starting states.
Init ==
    /\ doc \in 1..Len(Documents)
    /\ order \in FileOrders
    /\ engine0 \in 1..Len(Engines)
    /\ eng = Engines[engine0]
    /\ nexth = NextNumber(Engines[engine0])
    /\ relations = <<>>
    /\ modifiers = <<>>
    /\ objects = PopulateObjectsDict(Engines[engine0])
    /\ project = EngProject(Engines[engine0])
    /\ args = DefaultArgs
    /\ pc = "idle"
    /\ stack = <<>>
    /\ ri = 1 /\ rj = 1 /\ updates = <<>> /\ mi = 1 /\ msize = 0
    /\ log = <<>>
    /\ outcome = "none"
    /\ err = ""
    /\ loads = 0
    /\ visited = {}
    /\ queued = {}
    /\ trace = <<>>
    /\ ref = <<>>
    /\ pass = 1
    /\ cfg = NoCfg
    /\ call = NoCall

TheText == Text(doc, order)
Top == stack[Len(stack)]
CurKey == Head(Top.keys)
CurNode == Entry(TheText, Top.node, CurKey)

\* The stack once the innermost mapping is done with its current key.
Advanced == [stack EXCEPT ![Len(stack)].keys = Tail(@)]

\* An engine call as the log keeps it: with the phase it was made in.
Stamp(evs, p) ==
    [i \in 1..Len(evs) |->
        [op |-> evs[i].op, obj |-> evs[i].obj, arg |-> evs[i].arg, val |-> evs[i].val,
         res |-> evs[i].res, ok |-> evs[i].ok, line |-> evs[i].line, via |-> evs[i].via,
         phase |-> p]]

\* What a finished call leaves behind.
EndRecord(a, U, lg, out) ==
    [args |-> a, objects |-> U.objects, relations |-> U.relations, modifiers |-> U.modifiers,
     eng |-> U.eng, log |-> lg, outcome |-> out, err |-> U.err]

\* self.stc.apply() (line 400)
Applied == <<Ev("apply", "", "", "", "", TRUE, 400, 0)>>

\* The calls that end a phase, with the apply that ends loadJson after the last.
Ending(evs, p) == IF NextPhase(p) = "idle" THEN evs \o Applied ELSE evs

\* loadJson with every error caught where it is raised: the step is given up
\* and the call goes on.
CommitAndContinue(U, base, nextpc) ==
    /\ objects' = U.objects
    /\ relations' = U.relations
    /\ modifiers' = U.modifiers
    /\ eng' = U.eng
    /\ nexth' = U.nexth
    /\ log' = log \o Stamp(U.evs, pc)
    /\ err' = U.err
    /\ pc' = nextpc
    /\ stack' = base \o U.push
    /\ outcome' = IF nextpc = "idle" THEN "ok" ELSE outcome
    /\ trace' = IF nextpc = "idle"
                THEN Append(trace, EndRecord(args, U, log \o Stamp(U.evs, pc), "ok"))
                ELSE trace

\* loadJson made transactional: an error empties the registry of the entries
\* the loader holds.
CommitOrRollBack(U, base, nextpc) ==
    /\ objects' = IF U.err # "" THEN <<>> ELSE U.objects
    /\ relations' = U.relations
    /\ modifiers' = U.modifiers
    /\ eng' = U.eng
    /\ nexth' = U.nexth
    /\ log' = log \o Stamp(U.evs, pc)
    /\ err' = U.err
    /\ IF U.err # ""
       THEN /\ pc' = "idle"
            /\ stack' = <<>>
            /\ outcome' = "raised"
            /\ trace' = Append(trace, EndRecord(args, U, log \o Stamp(U.evs, pc), "raised"))
       ELSE /\ pc' = nextpc
            /\ stack' = base \o U.push
            /\ outcome' = IF nextpc = "idle" THEN "ok" ELSE outcome
            /\ trace' = IF nextpc = "idle"
                        THEN Append(trace, EndRecord(args, U, log \o Stamp(U.evs, pc), "ok"))
                        ELSE trace

\* A step of loadJson that leaves the loader and the engine as U says and the
\* stack as base, with the mapping U enters on top: the call ends here when the
\* step raised or when nextpc is "idle".
Commit(U, base, nextpc) ==
    /\ objects' = U.objects
    /\ relations' = U.relations
    /\ modifiers' = U.modifiers
    /\ eng' = U.eng
    /\ nexth' = U.nexth
    /\ log' = log \o Stamp(U.evs, pc)
    /\ err' = U.err
    /\ IF U.err # ""
       THEN /\ pc' = "idle"
            /\ stack' = <<>>
            /\ outcome' = "raised"
            /\ trace' = Append(trace, EndRecord(args, U, log \o Stamp(U.evs, pc), "raised"))
       ELSE /\ pc' = nextpc
            /\ stack' = base \o U.push
            /\ outcome' = IF nextpc = "idle" THEN "ok" ELSE outcome
            /\ trace' = IF nextpc = "idle"
                        THEN Append(trace, EndRecord(args, U, log \o Stamp(U.evs, pc), "ok"))
                        ELSE trace

\* The loader and the engine as they are, after the calls r.evs and the error r.err.
Same(r) == Upd(objects, relations, modifiers, eng, nexth, r.evs, r.err, <<>>)
Nothing == [evs |-> <<>>, err |-> ""]

\* The cursors of the phase that starts.
Restart(mods) ==
    /\ ri' = 1 /\ rj' = 1 /\ updates' = <<>>
    /\ mi' = 1 /\ msize' = Len(mods)

StartLoad(a) ==
    LET reset == IF a.reset
                 THEN <<Ev("perform", SystemHandle, "ResetConfig", "", "", TRUE, 413, 0)>>
                 ELSE <<>>
        begin(objs, rels, mods, e, d) ==
            IF d.err # ""
            THEN [upd |-> Upd(objs, rels, mods, e, nexth, reset, d.err, <<>>),
                  project |-> project]
            ELSE [upd |-> Upd(objs, rels, mods, e, nexth,
                              Append(reset, Ev("get", SystemHandle, "children-project", "",
                                               EngProject(e), TRUE, 379, 0)),
                              "", <<RootFrame(TheText, a, EngProject(e))>>),
                  project |-> EngProject(e)]
    IN  IF a.reset
        THEN begin(<<>>, <<>>, <<>>, EngReset(eng), RootDirective(TheText, a))
        ELSE begin(objects, relations, modifiers, eng, RootDirective(TheText, a))

LoadJson ==
    /\ pc = "idle"
    /\ loads < MaxLoads
    /\ \E a \in ArgSets :
         LET begin(U, proj) ==
                /\ objects' = U.objects
                /\ relations' = U.relations
                /\ modifiers' = U.modifiers
                /\ eng' = U.eng
                /\ nexth' = U.nexth
                /\ project' = proj
                /\ args' = a
                /\ log' = Stamp(U.evs, "loadJson")
                /\ err' = U.err
                /\ stack' = U.push
                /\ pc' = IF U.err # "" THEN "idle" ELSE "addObject"
                /\ outcome' = IF U.err # "" THEN "raised" ELSE "running"
                /\ trace' = IF U.err # ""
                            THEN Append(trace, EndRecord(a, U, Stamp(U.evs, "loadJson"), "raised"))
                            ELSE trace
                /\ Restart(U.modifiers)
             start(s) == begin(s.upd, s.project)
         IN  /\ pass = 2 => (loads < Len(ref) /\ a = ref[loads + 1].args)
             /\ start(StartLoad(a))
    /\ loads' = loads + 1
    /\ visited' = {}
    /\ queued' = {}
    /\ UNCHANGED file

(***************************************************************************)
(* __addObject, one key at a time.                                         *)
(***************************************************************************)
AtKey(kind) ==
    /\ stack # <<>>
    /\ Top.stage = "iter"
    /\ Top.keys # <<>>
    /\ KeyKind(CurNode) = kind

\* The DeleteExisting block of the mapping entered (lines 3079-3121).
DeleteExisting ==
    /\ stack # <<>>
    /\ Top.stage = "enter"
    /\ LET done(r) ==
               Commit(Upd(r.objects, relations,
                          IF Top.ret = "modifier"
                          THEN SetDrop(modifiers, mi, {"DeleteExisting"}) ELSE modifiers,
                          r.eng, nexth, r.evs, r.err, <<>>),
                      [stack EXCEPT ![Len(stack)].stage = "iter",
                                    ![Len(stack)].items = <<>>,
                                    ![Len(stack)].keys =
                                        SortedKeys(TheText, Top.node,
                                                   Top.drop \cup {"DeleteExisting"})],
                      pc)
       IN  done(DeleteExistingBlock(objects, eng, Top))
    /\ UNCHANGED <<project, args, loads, visited, queued, file, cursors>>

\* A key that declares a stream block (line 3137).
AddStreamBlock ==
    /\ AtKey("streamblock")
    /\ Commit(CreateStreamBlock(objects, relations, modifiers, eng, nexth, TheText,
                                CurNode.id, Top.parent, CurKey),
              Advanced, pc)
    /\ visited' = visited \cup {CurNode.id}
    /\ UNCHANGED <<project, args, loads, queued, file, cursors>>

\* A key that declares a device (line 3139).
AddDevice ==
    /\ AtKey("device")
    /\ Commit(CreateDevice(objects, relations, modifiers, eng, nexth, project, TheText,
                           CurNode.id, Top.parent, CurKey),
              Advanced, pc)
    /\ visited' = visited \cup {CurNode.id}
    /\ UNCHANGED <<project, args, loads, queued, file, cursors>>

\* A key that declares a modifier (lines 3140-3156).
QueueModifier ==
    /\ AtKey("modifier")
    /\ Commit(Upd(objects, relations,
                  DeferModifier(modifiers, Top.parent, CurKey, CurNode.otype, CurNode.id),
                  eng, nexth, <<>>, "", <<>>),
              Advanced, pc)
    /\ visited' = visited \cup {CurNode.id}
    /\ UNCHANGED <<project, args, loads, queued, file, cursors>>

\* A key that declares an object of any other type (lines 3157-3214).
AddGenericObject ==
    /\ AtKey("object")
    /\ Commit(AddGeneric(objects, relations, modifiers, eng, nexth, TheText, CurNode.id,
                         Top.parent, CurKey, CurNode.otype),
              Advanced, pc)
    /\ visited' = visited \cup {CurNode.id}
    /\ UNCHANGED <<project, args, loads, queued, file, cursors>>

\* A ToS or DiffServ key (lines 3223-3224).
SetTos ==
    /\ AtKey("tos")
    /\ Commit(Same(SetIPv4Tos(eng, Top.parent, ValueText(CurNode))), Advanced, pc)
    /\ visited' = visited \cup {CurNode.id}
    /\ UNCHANGED <<project, args, loads, queued, file, cursors>>

\* A "Relation:" key (lines 3227-3233).
EnqueueRelation ==
    /\ AtKey("relation")
    /\ Commit(Upd(objects, SetRelation(relations, Top.parent, CurKey, CurNode), modifiers,
                  eng, nexth, <<>>, "", <<>>),
              Advanced, pc)
    /\ visited' = visited \cup {CurNode.id}
    /\ queued' = IF pc = "addObject"
                 THEN queued \cup {[owner |-> Top.parent, key |-> CurKey]}
                 ELSE queued
    /\ UNCHANGED <<project, args, loads, file, cursors>>

\* Any other key: an attribute of the parent (line 3235).
ConfigAttribute ==
    /\ AtKey("attribute")
    /\ Commit(Same(Config(eng, Top.parent, ModifyPDUKey(CurKey), ValueText(CurNode), 3235)),
              Advanced, pc)
    /\ visited' = visited \cup {CurNode.id}
    /\ UNCHANGED <<project, args, loads, queued, file, cursors>>

\* __addObject returns (line 3237): to the __addObject that called it, to
\* loadJson (line 382), or through createModifier to __addModifiers (line 3328).
Return ==
    /\ stack # <<>>
    /\ Top.stage = "iter"
    /\ Top.keys = <<>>
    /\ IF Top.ret = "root"
       THEN /\ Commit(Same(Nothing), <<>>, NextPhase("addObject"))
            /\ Restart(modifiers)
       ELSE IF Top.ret = "modifier"
       THEN /\ Commit(Upd(Put(objects, modifiers[mi].name, Top.parent), relations, modifiers,
                          eng, nexth, <<>>, "", <<>>),
                      <<>>, pc)
            /\ mi' = mi + 1
            /\ UNCHANGED <<ri, rj, updates, msize>>
       ELSE /\ Commit(Same(Nothing), SubSeq(stack, 1, Len(stack) - 1), pc)
            /\ UNCHANGED cursors
    /\ UNCHANGED <<project, args, loads, visited, queued, file>>

ResolveRelations ==
    /\ pc = "resolveRelations"
    /\ ri <= Len(relations)
    /\ Commit(Same(ResolveRelation(objects, eng, relations[ri].owner, relations[ri].attrs[rj])),
              stack, pc)
    /\ updates' = IF /\ NeedsUpdate(RelationAttribute(relations[ri].attrs[rj].key))
                     /\ relations[ri].owner \notin Range(updates)
                  THEN Append(updates, relations[ri].owner) ELSE updates
    /\ ri' = IF rj < Len(relations[ri].attrs) THEN ri ELSE ri + 1
    /\ rj' = IF rj < Len(relations[ri].attrs) THEN rj + 1 ELSE 1
    /\ UNCHANGED <<project, args, loads, visited, queued, file, mi, msize>>

\* The end of __resolveRelations (lines 3307-3312).
FinishRelations ==
    /\ pc = "resolveRelations"
    /\ ri > Len(relations)
    /\ LET done(r) ==
               IF r.err # ""
               THEN /\ Commit(Same(r), stack, pc)
                    /\ UNCHANGED cursors
               ELSE /\ Commit(Upd(objects, <<>>, modifiers, eng, nexth,
                                  Ending(r.evs, "resolveRelations"), "", <<>>),
                              <<>>, NextPhase("resolveRelations"))
                    /\ Restart(modifiers)
       IN  done(UpdateStreamBlocks(eng, updates))
    /\ UNCHANGED <<project, args, loads, visited, queued, file>>

(***************************************************************************)
(* __addModifiers, one queued modifier at a time.                          *)
(***************************************************************************)
ChangedSize == "RuntimeError: dictionary changed size during iteration"

\* The next pass of the loop of __addModifiers (lines 3320-3326): the
\* iteration fails if the queue has grown under it.
AddModifiers ==
    /\ pc = "addModifiers"
    /\ stack = <<>>
    /\ ~(Len(modifiers) = msize /\ mi > msize)
    /\ IF Len(modifiers) # msize
       THEN Commit(Same([evs |-> <<>>, err |-> ChangedSize]), <<>>, pc)
       ELSE Commit(CreateModifier(objects, relations, modifiers, eng, nexth, TheText, mi),
                   <<>>, pc)
    /\ UNCHANGED <<project, args, loads, visited, queued, file, cursors>>

\* The end of __addModifiers (lines 3330-3332).
FinishModifiers ==
    /\ pc = "addModifiers"
    /\ stack = <<>>
    /\ Len(modifiers) = msize
    /\ mi > msize
    /\ Commit(Upd(objects, relations, <<>>, eng, nexth, Ending(<<>>, "addModifiers"), "", <<>>),
              <<>>, NextPhase("addModifiers"))
    /\ Restart(<<>>)
    /\ UNCHANGED <<project, args, loads, visited, queued, file>>

Next ==
    \/ LoadJson
    \/ DeleteExisting
    \/ AddStreamBlock
    \/ AddDevice
    \/ QueueModifier
    \/ AddGenericObject
    \/ SetTos
    \/ EnqueueRelation
    \/ ConfigAttribute
    \/ Return
    \/ ResolveRelations
    \/ FinishRelations
    \/ AddModifiers
    \/ FinishModifiers

Spec == Init /\ [][Next]_vars

\* The session started over on an engine in the same starting state, with the
\* keys of the file written in the other order.
Rewind ==
    /\ pc = "idle"
    /\ pass = 1
    /\ loads >= 1
    /\ ref' = trace
    /\ pass' = 2
    /\ order' = IF order = "written" THEN "reversed" ELSE "written"
    /\ eng' = Engines[engine0]
    /\ nexth' = NextNumber(Engines[engine0])
    /\ relations' = <<>>
    /\ modifiers' = <<>>
    /\ objects' = PopulateObjectsDict(Engines[engine0])
    /\ project' = EngProject(Engines[engine0])
    /\ args' = DefaultArgs
    /\ stack' = <<>>
    /\ Restart(<<>>)
    /\ log' = <<>>
    /\ outcome' = "none"
    /\ err' = ""
    /\ loads' = 0
    /\ visited' = {}
    /\ queued' = {}
    /\ trace' = <<>>
    /\ UNCHANGED <<doc, engine0, pc, cfg, call>>

NextOrder ==
    \/ Next
    \/ Rewind

\* Two sessions that make the same loadJson calls on the same file, written
\* with its keys in one order and then in the other.
SpecOrder == Init /\ [][NextOrder]_vars

\* The greatest number of objects below the port of an engine that __config is
\* called on alone.
MaxNodes == 3

\* The types of the objects below the port, and the type each one is created under.
ShapeTypes == {"StreamBlock", "ipv4:IPv4", "RangeModifier"}
ShapeParent(type) == IF type = "StreamBlock" THEN "Port" ELSE "StreamBlock"

\* The handle of node j of a shape; node 0 is the port.
ShapeHandle(types, j) == IF j = 0 THEN "port2" ELSE NewHandle(types[j], j + 2)

\* The engine with a project, a port, and below the port the nodes 1..i, node j
\* of type types[j] under node parents[j].
RECURSIVE Shape(_, _, _)
Shape(types, parents, i) ==
    IF i = 0
    THEN EngAdd(EngAdd(<<>>, 1, "Project", "Project 1", SystemHandle, NoHandle),
                2, "Port", "Port1", "project1", NoHandle)
    ELSE EngAdd(Shape(types, parents, i - 1), i + 2, types[i], "",
                ShapeHandle(types, parents[i]), NoHandle)

\* Whether every node is under an earlier node of the type it is created under.
WellFormed(types, parents, k) ==
    \A i \in 1..k :
        /\ parents[i] < i
        /\ ShapeParent(types[i]) = (IF parents[i] = 0 THEN "Port" ELSE types[parents[i]])

ShapesOf(types, k) ==
    {Shape(types, parents, k) :
        parents \in {p \in [1..k -> 0..MaxNodes] : WellFormed(types, p, k)}}

Shapes == UNION {UNION {ShapesOf(types, k) : types \in [1..k -> ShapeTypes]} : k \in 0..MaxNodes}

CfgAttributes == {"sourceaddr", "mask", "load", "location", "Location", "Bogus"}
CfgValues == {"1", InvalidValue}

\* An engine of some shape, and one __config call on its port about to be made.
InitCfg ==
    /\ eng \in Shapes
    /\ cfg \in [object : {"port2"}, attribute : CfgAttributes, value : CfgValues]
    /\ call = NoCall
    /\ doc = 1
    /\ order = "written"
    /\ engine0 = 1
    /\ nexth = MaxNodes + 3
    /\ relations = <<>>
    /\ modifiers = <<>>
    /\ objects = <<>>
    /\ project = "project1"
    /\ args = DefaultArgs
    /\ pc = "config"
    /\ stack = <<>>
    /\ ri = 1 /\ rj = 1 /\ updates = <<>> /\ mi = 1 /\ msize = 0
    /\ log = <<>>
    /\ outcome = "none"
    /\ err = ""
    /\ loads = 0
    /\ visited = {}
    /\ queued = {}
    /\ trace = <<>>
    /\ ref = <<>>
    /\ pass = 1

\* self.__config(object, attribute, value)
ConfigCall ==
    /\ pc = "config"
    /\ outcome = "none"
    /\ LET done(r) ==
               /\ log' = Stamp(r.evs, "config")
               /\ err' = r.err
               /\ outcome' = IF r.err # "" THEN "raised" ELSE "ok"
       IN  done(Config(eng, cfg.object, cfg.attribute, cfg.value, 0))
    /\ UNCHANGED <<objects, relations, modifiers, project, eng, nexth, args, pc, stack,
                   loads, visited, queued, trace, file, cursors>>

NextCfg == ConfigCall

SpecCfg == InitCfg /\ [][NextCfg]_vars

\* The greatest number of hex digits in the value __setIPv4Tos is called with alone.
MaxHexDigits == 2

\* The values: an optional prefix and up to MaxHexDigits characters, every hex
\* digit among them.
TosPrefixes == {"", "0x", "0X"}
TosChars ==
    {"0", "1", "2", "3", "4", "5", "6", "7", "8", "9", "A", "B", "C", "D", "E", "F", "b", "G"}

RECURSIVE TosDigits(_)
TosDigits(k) ==
    IF k = 0 THEN {""}
    ELSE TosDigits(k - 1) \cup {s \o c : s \in TosDigits(k - 1), c \in TosChars}

TosValues == {p \o s : p \in TosPrefixes, s \in TosDigits(MaxHexDigits)}

\* A port with one stream block, with an IPv4 header or without any.
TosEngines ==
    {EngAddStreamBlock(EngineBare, 5, "port2", fc, "SB1").eng : fc \in {"IPv4", ""}}

\* One __setIPv4Tos call on the stream block about to be made.
InitTos ==
    /\ eng \in TosEngines
    /\ cfg \in [object : {"streamblock5"}, attribute : {"IPv4.tos"}, value : TosValues]
    /\ call = NoCall
    /\ doc = 1
    /\ order = "written"
    /\ engine0 = 1
    /\ nexth = 9
    /\ relations = <<>>
    /\ modifiers = <<>>
    /\ objects = <<>>
    /\ project = "project1"
    /\ args = DefaultArgs
    /\ pc = "tos"
    /\ stack = <<>>
    /\ ri = 1 /\ rj = 1 /\ updates = <<>> /\ mi = 1 /\ msize = 0
    /\ log = <<>>
    /\ outcome = "none"
    /\ err = ""
    /\ loads = 0
    /\ visited = {}
    /\ queued = {}
    /\ trace = <<>>
    /\ ref = <<>>
    /\ pass = 1

\* self.__setIPv4Tos(streamblock, attribute, hexstring)
TosCall ==
    /\ pc = "tos"
    /\ outcome = "none"
    /\ LET done(r) ==
               /\ log' = Stamp(r.evs, "tos")
               /\ err' = r.err
               /\ outcome' = IF r.err # "" THEN "raised" ELSE "ok"
       IN  done(SetIPv4Tos(eng, cfg.object, cfg.value))
    /\ UNCHANGED <<objects, relations, modifiers, project, eng, nexth, args, pc, stack,
                   loads, visited, queued, trace, file, cursors>>

NextTos == TosCall

SpecTos == InitTos /\ [][NextTos]_vars

\* resetConfig() without the reset of the two queues.
ResetKeepsQueues ==
    /\ pc = "idle"
    /\ objects' = <<>>
    /\ eng' = EngReset(eng)
    /\ log' = Stamp(<<Ev("perform", SystemHandle, "ResetConfig", "", "", TRUE, 413, 0)>>,
                    "resetConfig")
    /\ outcome' = "reset"
    /\ err' = ""
    /\ UNCHANGED <<relations, modifiers, project, nexth, args, pc, stack, loads, visited,
                   queued, trace, file, cursors>>

\* resetConfig(), called between two loadJson calls (lines 405-419).
ResetConfig ==
    /\ pc = "idle"
    /\ relations' = <<>>
    /\ modifiers' = <<>>
    /\ objects' = <<>>
    /\ eng' = EngReset(eng)
    /\ log' = Stamp(<<Ev("perform", SystemHandle, "ResetConfig", "", "", TRUE, 413, 0)>>,
                    "resetConfig")
    /\ outcome' = "reset"
    /\ err' = ""
    /\ UNCHANGED <<project, nexth, args, pc, stack, loads, visited, queued, trace, file,
                   cursors>>

\* A session of loadJson and resetConfig calls.
NextReset ==
    \/ Next
    \/ ResetConfig

SpecReset == Init /\ [][NextReset]_vars

\* The greatest number of stream blocks with an IPv4 header in the engine that
\* getObject is called on alone.
MaxBlocks == 2

\* Engine e with k stream blocks more on its port, each with an IPv4 header.
RECURSIVE WithBlocks(_, _)
WithBlocks(e, k) ==
    LET add(prev) ==
            EngAddStreamBlock(prev, NextNumber(prev), "port2", "IPv4", "SB" \o Dec(k + 1)).eng
    IN  IF k = 0 THEN e ELSE add(WithBlocks(e, k - 1))

GetEngines == {WithBlocks(e, k) : e \in {EngineBare, EngineUsed}, k \in 0..MaxBlocks}

\* The names and the object types getObject is called with; "" is no type.
GetNames == {"Port1", "Port1 (offline)", "SB1", "Project 1", "ip_1", "Nope"}
GetTypes == {"", "Port", "project", "StreamBlock", "ipv4:IPv4", "Widget"}

\* A loader just constructed on one of the engines.
InitGet ==
    /\ eng \in GetEngines
    /\ objects = PopulateObjectsDict(eng)
    /\ project = EngProject(eng)
    /\ nexth = NextNumber(eng)
    /\ cfg = NoCfg
    /\ call = NoCall
    /\ doc = 1
    /\ order = "written"
    /\ engine0 = 1
    /\ relations = <<>>
    /\ modifiers = <<>>
    /\ args = DefaultArgs
    /\ pc = "lookup"
    /\ stack = <<>>
    /\ ri = 1 /\ rj = 1 /\ updates = <<>> /\ mi = 1 /\ msize = 0
    /\ log = <<>>
    /\ outcome = "none"
    /\ err = ""
    /\ loads = 0
    /\ visited = {}
    /\ queued = {}
    /\ trace = <<>>
    /\ ref = <<>>
    /\ pass = 1

\* getObject(name, objecttype), called any number of times.
GetObjectCall ==
    /\ pc = "lookup"
    /\ \E name \in GetNames, objecttype \in GetTypes :
          LET done(r) ==
                 /\ objects' = r.objects
                 /\ call' = [name |-> name, objecttype |-> objecttype, handle |-> r.handle]
                 /\ log' = Stamp(r.evs, "getObject")
                 /\ err' = r.err
                 /\ outcome' = IF r.err # "" THEN "raised" ELSE "ok"
          IN  done(GetObjectOfType(objects, eng, name, objecttype))
    /\ UNCHANGED <<relations, modifiers, project, eng, nexth, args, pc, stack, loads, visited,
                   queued, trace, doc, order, engine0, ref, pass, cfg, cursors>>

NextGet == GetObjectCall

SpecGet == InitGet /\ [][NextGet]_vars

\* The greatest timeout waitForLinkUp is called with.
MaxTimeout == 5

\* What the engine may report as the LinkStatus of a port.
LinkStates == {"UP", "Up", "DOWN"}

\* linksUp() with its default arguments (lines 1455-1483): every port of the
\* project, looked up with getObject and taken for a handle when that finds
\* nothing; status is the LinkStatus the engine reports for each port.
RECURSIVE CheckPorts(_, _, _, _)
CheckPorts(objs, e, portnamelist, status) ==
    LET rest(found, port, r) ==
            [objects |-> r.objects, evs |-> found.evs \o r.evs, err |-> r.err,
             ports |-> <<port>> \o r.ports]
        next(found, port) ==
            IF found.err # ""
            THEN [objects |-> found.objects, evs |-> found.evs, err |-> found.err,
                  ports |-> <<>>]
            ELSE rest(found, port, CheckPorts(found.objects, e, Tail(portnamelist), status))
        one(found) ==
            next(found, IF found.handle # NoHandle THEN found.handle ELSE Head(portnamelist))
    IN  IF portnamelist = <<>> THEN [objects |-> objs, evs |-> <<>>, err |-> "", ports |-> <<>>]
        ELSE one(GetObjectOfType(objs, e, Head(portnamelist), "port"))

LinksUp(objs, e, proj, status) ==
    LET down(ports) == {i \in 1..Len(ports) : Lower(status[ports[i]]) # "up"}
        first(S) == IF S = {} THEN 0 ELSE CHOOSE i \in S : \A j \in S : i <= j
        phy(ports, n) ==
            [i \in 1..(2 * n) |->
                IF i % 2 = 1
                THEN Ev("perform", ports[(i + 1) \div 2], "PortSetupGetActivePhy", "",
                        ports[(i + 1) \div 2], TRUE, 1475, 0)
                ELSE Ev("get", ports[i \div 2], "LinkStatus", "", status[ports[i \div 2]],
                        TRUE, 1477, 0)]
        checked(r, stopat) ==
            [objects |-> r.objects,
             evs |-> <<Ev("get", proj, "children-port", "", "", TRUE, 1460, 0)>> \o r.evs
                     \o (IF r.err # "" THEN <<>>
                         ELSE phy(r.ports, IF stopat = 0 THEN Len(r.ports) ELSE stopat)),
             err |-> r.err,
             up |-> r.err = "" /\ stopat = 0]
        result(r) == checked(r, IF r.err # "" THEN 0 ELSE first(down(r.ports)))
    IN  result(CheckPorts(objs, e, ChildrenOfType(e, proj, "port"), status))

TimeoutError(elapsedtime) ==
    "A timeout occurred while waiting for interface links to come up ("
    \o Dec(elapsedtime) \o " seconds)."

\* A loader just constructed, and a waitForLinkUp(timeout=t) call about to start.
InitWait ==
    /\ engine0 \in 1..Len(Engines)
    /\ eng = Engines[engine0]
    /\ objects = PopulateObjectsDict(Engines[engine0])
    /\ project = EngProject(Engines[engine0])
    /\ nexth = NextNumber(Engines[engine0])
    /\ call \in [timeout : 0..MaxTimeout, elapsedtime : {0}, seen : {<<>>}, slept : {0}]
    /\ cfg = NoCfg
    /\ doc = 1
    /\ order = "written"
    /\ relations = <<>>
    /\ modifiers = <<>>
    /\ args = DefaultArgs
    /\ pc = "wait"
    /\ stack = <<>>
    /\ ri = 1 /\ rj = 1 /\ updates = <<>> /\ mi = 1 /\ msize = 0
    /\ log = <<>>
    /\ outcome = "none"
    /\ err = ""
    /\ loads = 0
    /\ visited = {}
    /\ queued = {}
    /\ trace = <<>>
    /\ ref = <<>>
    /\ pass = 1

\* One turn of the loop of waitForLinkUp (lines 1507-1520): the check, the
\* count, and the timeout or the sleep.
WaitForLinkUp ==
    /\ pc = "wait"
    /\ outcome = "none"
    /\ \E status \in [ {h \in DOMAIN eng : eng[h].type = "Port"} -> LinkStates ] :
          LET turn(r, elapsedtime) ==
                 /\ objects' = r.objects
                 /\ log' = log \o Stamp(r.evs, "waitForLinkUp")
                 /\ call' = [call EXCEPT !.elapsedtime = elapsedtime,
                                         !.seen = Append(@, r.up),
                                         !.slept = IF r.err = "" /\ elapsedtime <= call.timeout
                                                      /\ ~r.up
                                                   THEN @ + 1 ELSE @]
                 /\ err' = IF r.err # "" THEN r.err
                           ELSE IF elapsedtime > call.timeout THEN TimeoutError(elapsedtime)
                           ELSE ""
                 /\ outcome' = IF r.err # "" \/ elapsedtime > call.timeout THEN "raised"
                               ELSE IF r.up THEN "ok" ELSE "none"
          IN  turn(LinksUp(objects, eng, project, status), call.elapsedtime + 1)
    /\ UNCHANGED <<relations, modifiers, project, eng, nexth, args, pc, stack, loads, visited,
                   queued, trace, doc, order, engine0, ref, pass, cfg, cursors>>

NextWait == WaitForLinkUp

SpecWait == InitWait /\ [][NextWait]_vars

\* The test types runTest is called with, as the testtype argument and as the
\* value of "Type" in parametersdict.
TestTypes ==
    {"FixedDuration", "fixedduration", "Ping", "PING", "RFC2544", "rfc2544", "Rfc2889", ""}

\* The parametersdict arguments: None, or a mapping with the keys given;
\* "Type" has one of the test types for its value.
TestKeys == {{}, {"Duration"}, {"Type"}, {"Type", "Duration"}}
TestParameters ==
    {[given |-> FALSE, keys |-> {}, type |-> ""]}
    \cup {[given |-> TRUE, keys |-> k, type |-> IF "Type" \in k THEN t ELSE ""] :
             k \in TestKeys, t \in TestTypes}

UnknownTestType(testtype, testname) ==
    "Unknown test type '" \o testtype \o "' for test '" \o testname \o "'."

TypeKeyError == "KeyError: 'Type'"

\* The runner a test type selects (lines 488-493); "" for none.
Runner(testtype) ==
    IF Lower(testtype) = "fixedduration" THEN "runFixedDurationTest"
    ELSE IF Lower(testtype) = "ping" THEN "runPingTest"
    ELSE IF Lower(testtype) = "rfc2544" THEN "runRfc2544Test"
    ELSE ""

\* runTest(testname, testtype, parametersdict) (lines 481-498): the runner
\* called, as an entry of the log, and the error raised.
RunTest(testname, testtype, parametersdict) ==
    LET dispatch(type) ==
            IF Runner(type) = ""
            THEN [evs |-> <<>>, err |-> UnknownTestType(type, testname)]
            ELSE [evs |-> <<Ev("run", testname, Runner(type), type, "", TRUE, 489, 0)>>,
                  err |-> ""]
    IN  IF "Type" \notin parametersdict.keys
        THEN [evs |-> <<>>, err |-> TypeKeyError]
        ELSE dispatch(parametersdict.type)

\* One runTest call about to be made.
InitTest ==
    /\ call \in [testname : {"T1"}, testtype : TestTypes, parametersdict : TestParameters]
    /\ eng = EngineBare
    /\ objects = PopulateObjectsDict(EngineBare)
    /\ project = EngProject(EngineBare)
    /\ nexth = NextNumber(EngineBare)
    /\ cfg = NoCfg
    /\ doc = 1
    /\ order = "written"
    /\ engine0 = 1
    /\ relations = <<>>
    /\ modifiers = <<>>
    /\ args = DefaultArgs
    /\ pc = "test"
    /\ stack = <<>>
    /\ ri = 1 /\ rj = 1 /\ updates = <<>> /\ mi = 1 /\ msize = 0
    /\ log = <<>>
    /\ outcome = "none"
    /\ err = ""
    /\ loads = 0
    /\ visited = {}
    /\ queued = {}
    /\ trace = <<>>
    /\ ref = <<>>
    /\ pass = 1

\* self.runTest(testname, testtype, parametersdict)
RunTestCall ==
    /\ pc = "test"
    /\ outcome = "none"
    /\ LET done(r) ==
               /\ log' = Stamp(r.evs, "runTest")
               /\ err' = r.err
               /\ outcome' = IF r.err # "" THEN "raised" ELSE "ok"
       IN  done(RunTest(call.testname, call.testtype, call.parametersdict))
    /\ UNCHANGED <<objects, relations, modifiers, project, eng, nexth, args, pc, stack,
                   loads, visited, queued, trace, file, cursors>>

NextTest == RunTestCall

SpecTest == InitTest /\ [][NextTest]_vars

\* The session goes on with another input file after a loadJson that raised:
\* the next loadJson call reads document d.  The entries of self.modifiers
\* point into the text they were read from, so the file changes only while
\* that queue is empty.
OtherFile ==
    /\ pc = "idle"
    /\ outcome = "raised"
    /\ loads < MaxLoads
    /\ modifiers = <<>>
    /\ pass = 1
    /\ \E d \in 1..Len(Documents) :
         /\ d # doc
         /\ doc' = d
    /\ UNCHANGED <<objects, relations, modifiers, project, eng, nexth, order, engine0, args,
                   pc, stack, log, outcome, err, loads, visited, queued, trace, ref, pass,
                   cfg, call, cursors>>

NextAgain == Next \/ OtherFile

\* Sessions of loadJson calls on one StcGen, on the same file or on another one
\* after a call that raised.
SpecAgain == Init /\ [][NextAgain]_vars

\* The greatest number of ports, and of emulated devices, in the session that
\* a loader is constructed on.
MaxExisting == 2

\* The names of the objects of such a session: a port that is offline, a name
\* with the mark of an offline port inside it, and names that two objects share.
ExistingPorts == {"Port1", "Port1 (offline)", "Up (offline) 1"}
ExistingBlocks == {"SB1", "Port1"}
ExistingDevices == {"Dev1", "SB1"}

\* The sequences of at most k members of S.
RECURSIVE UpTo(_, _)
UpTo(S, k) ==
    IF k = 0 THEN {<<>>}
    ELSE UpTo(S, k - 1) \cup {Append(q, x) : q \in UpTo(S, k - 1), x \in S}

\* The engine e with the ports of a plan, each with its stream blocks, and then
\* the devices of the plan, all affiliated with the first port.
RECURSIVE WithPorts(_, _)
WithPorts(e, ports) ==
    LET blocks(prev, port, names) ==
            IF names = <<>> THEN prev
            ELSE EngAddStreamBlock(prev, NextNumber(prev), port, "", names[1]).eng
        port(prev, n, p) ==
            blocks(EngCreate(prev, n, "Port", p.name, "project1").eng, NewHandle("Port", n),
                   p.blocks)
    IN  IF ports = <<>> THEN e
        ELSE WithPorts(port(e, NextNumber(e), Head(ports)), Tail(ports))

RECURSIVE WithDevices(_, _)
WithDevices(e, names) ==
    IF names = <<>> THEN e
    ELSE WithDevices(EngExpandDevice(e, NextNumber(e), "project1", "port2", Head(names),
                                     FALSE).eng,
                     Tail(names))

ExistingEngines ==
    {WithDevices(WithPorts(EngAdd(<<>>, 1, "Project", "Project 1", SystemHandle, NoHandle),
                           ports), devices) :
        ports \in UpTo([name : ExistingPorts, blocks : UpTo(ExistingBlocks, 1)], MaxExisting)
                     \ {<<>>},
        devices \in UpTo(ExistingDevices, MaxExisting)}

\* A session before StcGen is constructed on it.
InitNew ==
    /\ eng \in ExistingEngines
    /\ objects = <<>>
    /\ project = EngProject(eng)
    /\ nexth = NextNumber(eng)
    /\ cfg = NoCfg
    /\ call = NoCall
    /\ doc = 1
    /\ order = "written"
    /\ engine0 = 1
    /\ relations = <<>>
    /\ modifiers = <<>>
    /\ args = DefaultArgs
    /\ pc = "new"
    /\ stack = <<>>
    /\ ri = 1 /\ rj = 1 /\ updates = <<>> /\ mi = 1 /\ msize = 0
    /\ log = <<>>
    /\ outcome = "none"
    /\ err = ""
    /\ loads = 0
    /\ visited = {}
    /\ queued = {}
    /\ trace = <<>>
    /\ ref = <<>>
    /\ pass = 1

\* StcGen(...): the queues and the registry are made empty and the registry
\* is populated (lines 293-302).
Construct ==
    /\ pc = "new"
    /\ relations' = <<>>
    /\ modifiers' = <<>>
    /\ objects' = PopulateObjectsDict(eng)
    /\ pc' = "idle"
    /\ UNCHANGED <<project, eng, nexth, args, stack, log, outcome, err, loads, visited,
                   queued, trace, file, cursors>>

NextNew == Construct

SpecNew == InitNew /\ [][NextNew]_vars

(***************************************************************************)
(* The properties.                                                         *)
(***************************************************************************)
\* The calls the step being taken adds to the log.
NewCalls == SubSeq(log', Len(log) + 1, Len(log'))

\* The calls that apply a deferred relation, and the call that creates a modifier.
AppliesRelation(ev) == ev.via = 3305 \/ ev.line = 3299 \/ ev.line = 3308
CreatesModifier(ev) == ev.line = 1306

RECURSIVE InModifier(_, _)
InModifier(d, id) ==
    id # 0 /\ (KeyKind(NodeOf(d, id)) = "modifier" \/ InModifier(d, NodeOf(d, id).parent))

\* The objects document d declares outside its modifiers.
Declared(d) ==
    {nd.id : nd \in {x \in Range(Documents[d]) :
                        x.otype # "" /\ (x.parent = 0 \/ ~InModifier(d, x.parent))}}

\* C1: the phases of loadJson run in sequence.  Once a relation is applied,
\* __addObject has visited every object the document declares outside its
\* modifiers; and when a modifier is created, every relation the first phase
\* queued has been configured on its owner, every stream block whose binding
\* changed has been updated, and no relation is applied afterwards.
C1_PhasesInSequence ==
    /\ (\E i \in 1..Len(log) : AppliesRelation(log[i])) => Declared(doc) \subseteq visited
    /\ \A j \in 1..Len(log) :
          CreatesModifier(log[j]) =>
             /\ \A i \in j..Len(log) : ~AppliesRelation(log[i])
             /\ \A q \in queued :
                   /\ \E i \in 1..j : /\ log[i].line = 3361
                                      /\ log[i].via = 3305
                                      /\ log[i].obj = q.owner
                                      /\ log[i].arg = RelationAttribute(q.key)
                   /\ NeedsUpdate(RelationAttribute(q.key))
                         => \E i \in 1..j : log[i].line = 3308 /\ log[i].obj = q.owner

\* A call that created a modifier after a relation was applied and the stream
\* block updated.
C1_Witness ==
    /\ queued # {}
    /\ \E i, j \in 1..Len(log) : i < j /\ log[i].line = 3308 /\ CreatesModifier(log[j])

\* A call that makes the engine create an object.
Creates(ev) ==
    \/ ev.op = "create"
    \/ ev.op = "perform" /\ ev.arg \in {"ProtocolCreateCommand", "DeviceGenConfigExpand"}

NoDelete(a) == ~a.devices /\ ~a.streamblocks
HasDirective(d) == \E nd \in Range(Documents[d]) : nd.key = "DeleteExisting"

\* C2: a document without DeleteExisting, loaded a second time with
\* autoDeleteDevices and autoDeleteStreamBlocks off after a first load that
\* succeeded, makes the engine create nothing, and leaves as many registry
\* entries and as many engine objects as the first load did.
C2_SecondLoadCreatesNothing ==
    (/\ loads >= 2 /\ pc = "idle" /\ outcome = "ok"
     /\ trace[loads - 1].outcome = "ok"
     /\ ~args.reset /\ NoDelete(args) /\ NoDelete(trace[loads - 1].args)
     /\ ~HasDirective(doc))
    => /\ \A i \in 1..Len(log) : ~Creates(log[i])
       /\ DOMAIN objects = DOMAIN trace[loads - 1].objects
       /\ Cardinality(DOMAIN eng) = Cardinality(DOMAIN trace[loads - 1].eng)

\* The part of a relation's name before its descendant suffix, and the steps
\* of the suffix.
NameOnly(objectname) == Head(SplitOn(objectname, "."))
PathOf(objectname) == Tail(SplitOn(objectname, "."))

\* The first name of a relation value that the registry does not have (0: none).
FirstMissing(item) ==
    LET missing == {k \in 1..Len(item.val) : NameOnly(item.val[k]) \notin DOMAIN objects}
    IN  IF missing = {} THEN 0 ELSE CHOOSE k \in missing : \A m \in missing : k <= m

\* The object a relation's name stands for: its registered handle, or the
\* descendant of it that the suffix leads to.
Target(objectname) == Navigate(eng, objects[NameOnly(objectname)], PathOf(objectname))

\* __resolveRelations is about to process the relation TheRelation of TheOwner.
RelationStep == pc = "resolveRelations" /\ ri <= Len(relations)
TheOwner == relations[ri].owner
TheRelation == relations[ri].attrs[rj]

\* C3: a relation whose value has a name the registry lacks makes loadJson
\* raise in __resolveRelations, with the message that gives the attribute and
\* the name (when the names before it resolve), and without a configure call;
\* and __resolveRelations never comes to its end with such a relation queued.
C3_UnknownReferenceFatal ==
    [][/\ (RelationStep /\ FirstMissing(TheRelation) > 0) =>
             /\ outcome' = "raised"
             /\ pc' = "idle"
             /\ err' # ""
             /\ (\A k \in 1..(FirstMissing(TheRelation) - 1) :
                     Target(TheRelation.val[k]) # NoHandle)
                  => err' = "An error occurred while processing '"
                            \o RelationAttribute(TheRelation.key) \o "' = '"
                            \o TheRelation.val[FirstMissing(TheRelation)]
                            \o "'\nUnable to locate the object."
             /\ \A i \in 1..Len(NewCalls) : NewCalls[i].op # "config"
       /\ (pc = "resolveRelations" /\ ri > Len(relations)) =>
             \A i \in 1..Len(relations) : \A j \in 1..Len(relations[i].attrs) :
                 FirstMissing(relations[i].attrs[j]) = 0
      ]_vars

\* A call that raised for the name "Nope.ipv4if", after the name before it
\* in the same value had resolved.
C3_Witness ==
    /\ outcome = "raised"
    /\ err = UnknownReference("DstBinding", "Nope.ipv4if")
    /\ "Dev2" \in DOMAIN objects
    /\ \A i \in 1..Len(log) : log[i].via # 3305

\* C4: the value configured on the owner of a relation is made of, for every
\* name of the relation, the handle the registry has for it when the name has
\* no suffix, and else the object the suffix leads to from that handle, which
\* is another object; a suffix that leads nowhere makes the call raise.
C4_DescendantPath ==
    [][(RelationStep /\ FirstMissing(TheRelation) = 0 /\ TheRelation.val # <<>>) =>
          IF \E k \in 1..Len(TheRelation.val) : Target(TheRelation.val[k]) = NoHandle
          THEN err' # "" /\ \A i \in 1..Len(NewCalls) : NewCalls[i].op # "config"
          ELSE /\ \E i \in 1..Len(NewCalls) :
                     /\ NewCalls[i].op = "config"
                     /\ NewCalls[i].line = 3361
                     /\ NewCalls[i].obj = TheOwner
                     /\ NewCalls[i].arg = RelationAttribute(TheRelation.key)
                     /\ NewCalls[i].val =
                           Join([k \in 1..Len(TheRelation.val) |-> Target(TheRelation.val[k])],
                                " ")
               /\ \A k \in 1..Len(TheRelation.val) :
                     IF PathOf(TheRelation.val[k]) = <<>>
                     THEN Target(TheRelation.val[k]) = objects[TheRelation.val[k]]
                     ELSE Target(TheRelation.val[k]) # objects[NameOnly(TheRelation.val[k])]
      ]_vars

\* The binding "Dev1.ipv4if" applied as the handle of the device's interface.
C4_Witness ==
    \E i \in 1..Len(log) :
        /\ log[i].via = 3305
        /\ log[i].ok
        /\ log[i].arg = "SrcBinding"
        /\ "Dev1" \in DOMAIN objects
        /\ log[i].val \in DOMAIN eng
        /\ eng[log[i].val].type = "Ipv4If"
        /\ eng[log[i].val].parent = objects["Dev1"]

\* C5: a loadJson call that returns leaves both queues empty.
C5_QueuesDrained ==
    (pc = "idle" /\ outcome = "ok") => (relations = <<>> /\ modifiers = <<>>)

\* The number of relations queued.
RECURSIVE QueueSize(_)
QueueSize(rels) == IF rels = <<>> THEN 0 ELSE Len(Head(rels).attrs) + QueueSize(Tail(rels))

\* C6: once __resolveRelations has started, neither queue grows.
C6_NoLateEnqueue ==
    [][(pc \in {"resolveRelations", "addModifiers"}) =>
          /\ QueueSize(relations') <= QueueSize(relations)
          /\ Len(modifiers') <= Len(modifiers)
      ]_vars

\* __addObject is about to run the DeleteExisting block of a mapping.
DeleteStep == stack # <<>> /\ Top.stage = "enter"

\* C7: after the DeleteExisting block, the registry is what it was without the
\* entries whose handle the engine no longer knows; the block raises only where
\* the delete of a named object or the listing of a type fails, never for a
\* delete within a type.
C7_BulkDeletePurges ==
    [][DeleteStep =>
          /\ err' = "" =>
                /\ DOMAIN objects' = {x \in DOMAIN objects : objects[x] \in DOMAIN eng'}
                /\ \A x \in DOMAIN objects' : objects'[x] = objects[x]
          /\ err' # "" =>
                /\ NewCalls # <<>>
                /\ ~NewCalls[Len(NewCalls)].ok
                /\ NewCalls[Len(NewCalls)].line \in {3100, 3106}
          /\ \A i \in 1..Len(NewCalls) :
                (NewCalls[i].line = 3116 /\ NewCalls[i].ok) => NewCalls[i].obj \notin DOMAIN eng'
      ]_vars

\* The stream block SB1 deleted with its type and gone from the registry, after
\* the delete of another object had failed.
C7_Witness ==
    /\ engine0 = 2
    /\ loads = 1
    /\ "SB1" \notin DOMAIN objects
    /\ \E i, j \in 1..Len(log) :
          /\ i < j
          /\ log[i].line = 3116 /\ ~log[i].ok
          /\ log[j].line = 3116 /\ log[j].ok /\ log[j].arg = ""
          /\ log[j].obj = "streamblock5"

\* The attributes of object h whose name is `attribute` but for letter case,
\* and the objects at or below t that have one.
Matches(h, attribute) == {x \in TypeAttrs(eng[h].type) : Lower(x) = Lower(attribute)}
Holders(t, attribute) == {h \in Subtree(eng, t) : Matches(h, attribute) # {}}

\* The configure calls in the log.
ConfigCalls == {i \in 1..Len(log) : log[i].op = "config"}

\* C8: a __config call for a value the engine accepts, on a target without
\* the attribute and with exactly one object below it that has it, returns,
\* and its last configure call lands on that object, under the name the object
\* has for the attribute.
C8_FallbackFindsNested ==
    (/\ pc = "config"
     /\ outcome # "none"
     /\ cfg.value # InvalidValue
     /\ Matches(cfg.object, cfg.attribute) = {}
     /\ Cardinality(Holders(cfg.object, cfg.attribute)) = 1)
    => /\ outcome = "ok"
       /\ log[Len(log)].op = "config"
       /\ log[Len(log)].ok
       /\ log[Len(log)].res \in Holders(cfg.object, cfg.attribute)
       /\ log[Len(log)].arg \in Matches(log[Len(log)].res, cfg.attribute)

\* C9: a __config call on a target that has the attribute neither itself nor
\* anywhere below raises the error of __config, after the one configure call
\* that failed.
C9_AttributeNotFoundFatal ==
    (/\ pc = "config"
     /\ outcome # "none"
     /\ Holders(cfg.object, cfg.attribute) = {})
    => /\ outcome = "raised"
       /\ err = "An error occurred while processing '" \o cfg.attribute \o "' = " \o cfg.value
       /\ Cardinality(ConfigCalls) = 1
       /\ \A i \in ConfigCalls : ~log[i].ok /\ log[i].obj = cfg.object

\* The call raised after the search went through the port and three objects
\* below it.
C9_Witness ==
    /\ pc = "config"
    /\ outcome = "raised"
    /\ Holders(cfg.object, cfg.attribute) = {}
    /\ Cardinality(Subtree(eng, cfg.object)) = 4
    /\ Cardinality({i \in 1..Len(log) : log[i].line = 3426}) = 4

\* C10: the loadJson calls of a session make the same engine calls, end the
\* same way and leave the same registry and the same engine, whichever order
\* the keys of the file are written in.
C10_KeyOrderIndependent ==
    pass = 2 =>
       \A k \in 1..Len(trace) :
          /\ trace[k].log = ref[k].log
          /\ trace[k].objects = ref[k].objects
          /\ trace[k].outcome = ref[k].outcome
          /\ trace[k].err = ref[k].err
          /\ trace[k].eng = ref[k].eng

\* Two loads of the first document repeated with the keys in the other order,
\* with objects created in the first.
C10_Witness ==
    /\ pass = 2
    /\ doc = 1
    /\ Len(trace) = 2
    /\ Len(ref) = 2
    /\ trace[2].outcome = "ok"
    /\ \E i \in 1..Len(trace[1].log) : trace[1].log[i].op = "create"

\* The configure calls __setIPv4Tos made.
TosCalls == {i \in 1..Len(log) : log[i].line = 3467}

\* __setIPv4Tos was called with '0xB8' on a stream block that has an IPv4 header.
TosB8 ==
    /\ pc = "tos"
    /\ outcome # "none"
    /\ cfg.value = "0xB8"
    /\ ChildrenOfType(eng, cfg.object, "ipv4:IPv4") # <<>>

\* The call made one configure call, on the tos object of the header.
OneTosCall ==
    /\ outcome = "ok"
    /\ Len(log) = 1
    /\ TosCalls = {1}
    /\ log[1].op = "config"
    /\ log[1].ok
    /\ log[1].obj = cfg.object \o ".ipv4:IPv4.tosdiffserv.tos"
    /\ eng[log[1].res].type = "tos"

\* C11: __setIPv4Tos called with '0xB8' on a stream block that has an IPv4
\* header makes one configure call, on the header's tos object, with
\* precedence=5, dBit=1, tBit=1, rBit=0, mBit=0 and reserved=0: the bits of
\* 10111000 from the left, three for the precedence and one for each flag.
C11_TosB8 ==
    TosB8 => /\ OneTosCall
             /\ log[1].val = "precedence=5 dBit=1 tBit=1 rBit=0 mBit=0 reserved=0"

\* C11 as stated: the same call carries precedence=5, dBit=1, tBit=1, rBit=1,
\* mBit=0 and reserved=0.
C11_TosB8AsStated ==
    TosB8 => /\ OneTosCall
             /\ log[1].val = "precedence=5 dBit=1 tBit=1 rBit=1 mBit=0 reserved=0"

\* The call made with '0xB8' on a stream block with the header.
C11_Witness ==
    /\ pc = "tos"
    /\ outcome = "ok"
    /\ cfg.value = "0xB8"
    /\ TosCalls = {1}
    /\ log[1].res \in DOMAIN eng

\* A call that only reads the engine.
Reads(ev) ==
    \/ ev.op = "get"
    \/ ev.op = "perform" /\ ev.arg \in {"GetObjects", "GetObjectInfo"}

\* A call the engine refused, other than the two the code catches: a delete
\* within a type (line 3116) and the first attempt of __config (line 3361).
FatalCall(ev) == ~ev.ok /\ ev.line \notin {3116, 3361}

\* The first attempt of __config refused at i is followed by reads alone up
\* to j, or by reads and then the configure call __config re-issues.
SearchOnly(i, j) ==
    \/ \A k \in (i + 1)..j : Reads(log[k])
    \/ \E k \in (i + 1)..j : /\ log[k].line = 3382
                             /\ \A m \in (i + 1)..(k - 1) : Reads(log[m])

PhaseNumber(p) ==
    CASE p = "loadJson" -> 0
      [] p = "addObject" -> 1
      [] p = "resolveRelations" -> 2
      [] p = "addModifiers" -> 3
      [] OTHER -> 4

\* How loadJson stands once an error was raised.
Aborted ==
    /\ outcome = "raised"
    /\ pc = "idle"
    /\ stack = <<>>
    /\ \A i \in 1..Len(log) : log[i].op # "apply"
    /\ \A i \in 1..Len(log) : FatalCall(log[i]) => i = Len(log)
    /\ \A i \in 1..Len(log) :
          (log[i].line = 3361 /\ ~log[i].ok) => \A j \in (i + 1)..Len(log) : SearchOnly(i, j)

\* C12: an error raised in loadJson ends the call there.  The call the engine
\* refused is the last one of the log, or, for an attribute not found, only
\* the reads of the search follow it; the step that raises makes no call of a
\* later phase and leaves nothing to process; no apply is issued; and the next
\* thing that happens is another loadJson call.
C12_FatalAborts ==
    /\ [](err # "" => Aborted)
    /\ [][/\ (err' # "" /\ pc # "idle") =>
                /\ \A i \in 1..Len(NewCalls) : NewCalls[i].phase = pc
                /\ \A i \in 1..Len(log) : PhaseNumber(log[i].phase) <= PhaseNumber(pc)
                /\ visited' \subseteq visited \cup {nd.id : nd \in Range(Documents[doc])}
                /\ Cardinality(visited' \ visited) <= 1
          /\ err # "" => (loads' = loads + 1 /\ Len(trace) = loads)
         ]_vars

\* A call that raised for an attribute nothing has, with an object of the
\* document left unvisited.
C12_Witness ==
    /\ err = ConfigError("Bogus", "1")
    /\ outcome = "raised"
    /\ Declared(doc) \ visited # {}
    /\ \E i \in 1..Len(log) : log[i].line = 3361 /\ ~log[i].ok /\ i < Len(log)

\* The objects the deletes of a sequence of calls removed from engine e.
RECURSIVE Deleted(_, _)
Deleted(e, evs) ==
    IF evs = <<>> THEN {}
    ELSE IF Head(evs).op = "delete" /\ Head(evs).ok
    THEN Subtree(e, Head(evs).obj) \cup Deleted(EngDelete(e, Head(evs).obj), Tail(evs))
    ELSE Deleted(e, Tail(evs))

\* The calls of the log that created and registered an object under a name.
Registers(ev) == ev.op = "create" /\ ev.ok /\ ev.line \in {1164, 3199}

\* C13: the step of loadJson that raises keeps every registry entry, with its
\* handle, and removes no engine object but those a DeleteExisting item made it
\* delete before the failure; so, in a call that raised and made no delete,
\* every object created and registered is still in the engine and in the
\* registry under its name.
C13_NotTransactional ==
    /\ [][(err' # "" /\ pc # "idle") =>
             /\ \A x \in DOMAIN objects : x \in DOMAIN objects' /\ objects'[x] = objects[x]
             /\ DOMAIN eng \ DOMAIN eng' = Deleted(eng, NewCalls)
             /\ ~DeleteStep => DOMAIN eng \subseteq DOMAIN eng'
         ]_vars
    /\ []((outcome = "raised" /\ \A i \in 1..Len(log) : log[i].op # "delete") =>
             \A i \in 1..Len(log) :
                Registers(log[i]) => /\ log[i].res \in DOMAIN eng
                                     /\ log[i].val \in DOMAIN objects
                                     /\ objects[log[i].val] = log[i].res)

\* A call that raised after it had created and registered the stream block SB6.
C13_Witness ==
    /\ outcome = "raised"
    /\ \E i \in 1..Len(log) : Registers(log[i]) /\ log[i].val = "SB6" /\ i < Len(log)
    /\ "SB6" \in DOMAIN objects
    /\ objects["SB6"] \in DOMAIN eng

\* A step between two calls of loadJson that is not the start of one: a call
\* of resetConfig.
ResetStep == pc = "idle" /\ pc' = "idle" /\ loads' = loads

\* C14: resetConfig, whatever the session did before, leaves the registry and
\* both queues empty and sends the engine one command, ResetConfig on system1,
\* after which the engine holds nothing but the project.
C14_ResetClearsAll ==
    [][ResetStep =>
          /\ objects' = <<>>
          /\ relations' = <<>>
          /\ modifiers' = <<>>
          /\ Len(log') = 1
          /\ log'[1].op = "perform"
          /\ log'[1].arg = "ResetConfig"
          /\ log'[1].obj = SystemHandle
          /\ log'[1].line = 413
          /\ \A h \in DOMAIN eng' : eng'[h].type = "Project"
      ]_vars

\* resetConfig called after a loadJson call that raised and left a relation
\* queued and objects registered.
C14_Witness ==
    /\ outcome = "reset"
    /\ loads >= 1
    /\ trace[loads].outcome = "raised"
    /\ trace[loads].relations # <<>>
    /\ trace[loads].objects # <<>>
    /\ relations = <<>>
    /\ objects = <<>>

\* C15 as stated: getObject leaves the registry as it is, and returns the
\* handle registered for the name, or None when there is none.
C15_LookupReadOnly ==
    [][(pc = "lookup") =>
          /\ objects' = objects
          /\ call'.handle = Lookup(objects, call'.name)
      ]_vars

\* C15: getObject removes and changes no registry entry, and adds none but
\* one for the name it is asked; called without an object type it leaves the
\* registry as it is, and returns the handle registered for the name, or None
\* when there is none.
C15_LookupReadOnlyWithoutType ==
    [][(pc = "lookup") =>
          /\ \A x \in DOMAIN objects : x \in DOMAIN objects' /\ objects'[x] = objects[x]
          /\ DOMAIN objects' \subseteq DOMAIN objects \cup {call'.name}
          /\ call'.objecttype = "" =>
                /\ objects' = objects
                /\ call'.handle = Lookup(objects, call'.name)
                /\ log' = <<>>
                /\ err' = ""
      ]_vars

\* getObject("SB1") returned the handle of the registered stream block, and the
\* registry is the one __init__ made.
C15_Witness ==
    /\ pc = "lookup"
    /\ call.name = "SB1"
    /\ call.objecttype = ""
    /\ call.handle = "streamblock5"
    /\ objects = PopulateObjectsDict(eng)

\* The engine's objects of a type that have a name.
NamedOfType(name, objecttype) ==
    {h \in DOMAIN eng : Lower(eng[h].type) = Lower(objecttype) /\ eng[h].name = name}

\* What a getObject call that found the name in the registry, or was given no
\* type, did: no query, no change, and the handle h returned.
Unqueried(h) ==
    /\ log' = <<>>
    /\ err' = ""
    /\ objects' = objects
    /\ call'.handle = h

\* What a getObject call that queried the engine did with the answer.
Queried(name, matches) ==
    /\ Len(log') = 1
    /\ log'[1].op = "perform"
    /\ log'[1].arg = "GetObjects"
    /\ log'[1].val = call'.objecttype
    /\ log'[1].ok =>
          IF Cardinality(matches) = 0
          THEN err' = "" /\ call'.handle = NoHandle /\ objects' = objects
          ELSE IF Cardinality(matches) = 1
          THEN /\ err' = ""
               /\ call'.handle \in matches
               /\ objects' = Put(objects, name, call'.handle)
          ELSE /\ err' = MoreThanOne(name)
               /\ objects' = objects

\* C19: getObject returns the handle of a registered name without a query;
\* for a name that is not registered it returns None without a query when it
\* is given no type, and else queries the engine for the objects of the type
\* with the name: none gives None, one is returned and registered under the
\* name, several make the call raise.
C19_GetObjectByType ==
    [][(pc = "lookup") =>
          IF call'.name \in DOMAIN objects THEN Unqueried(objects[call'.name])
          ELSE IF call'.objecttype = "" THEN Unqueried(NoHandle)
          ELSE Queried(call'.name, NamedOfType(call'.name, call'.objecttype))
      ]_vars

\* The name "ip_1", which only a query can have registered, resolved again
\* without one; the engine has one such header.
C19_Witness ==
    /\ pc = "lookup"
    /\ call.name = "ip_1"
    /\ call.objecttype = "ipv4:IPv4"
    /\ log = <<>>
    /\ "ip_1" \in DOMAIN objects
    /\ call.handle = objects["ip_1"]
    /\ eng[call.handle].type = "ipv4:IPv4"

\* The registered names that are the item but for letter case.
NamesLike(item) == {x \in DOMAIN objects : Lower(x) = Lower(item)}

\* The calls of a DeleteExisting block that take an item for a type.
ByTypeCall(ev) == ev.line \in {3106, 3108, 3112, 3116}

\* C16: the DeleteExisting block of a mapping with one item deletes, when the
\* item is a registered name whatever its letter case, the object of that name
\* and nothing else, without any call that takes the item for a type; and
\* else lists the objects of that type under the parent and deletes each.
C16_DeleteByNameOrType ==
    [][(DeleteStep /\ Len(Top.items) = 1) =>
          IF NamesLike(Top.items[1]) # {}
          THEN /\ Len(NewCalls) = 1
               /\ NewCalls[1].op = "delete"
               /\ \E x \in NamesLike(Top.items[1]) : NewCalls[1].obj = objects[x]
               /\ \A i \in 1..Len(NewCalls) : ~ByTypeCall(NewCalls[i])
          ELSE /\ NewCalls # <<>>
               /\ NewCalls[1].line = 3106
               /\ NewCalls[1].val = Lower(Top.items[1])
               /\ NewCalls[1].ok =>
                     \A h \in Range(EngGetObjects(eng, Top.parent, Top.items[1])) :
                         \E i \in 1..Len(NewCalls) :
                             NewCalls[i].line = 3116 /\ NewCalls[i].obj = h
      ]_vars

\* The DeleteExisting value of the top-level mapping is a single string.
StringAtTop ==
    /\ HasKey(TheText, 0, "DeleteExisting")
    /\ ~Entry(TheText, 0, "DeleteExisting").islist
    /\ ValueText(Entry(TheText, 0, "DeleteExisting")) # ""

\* What loadJson makes of the one-element list of item for the flags a.
AsOneElementList(item, a) ==
    <<item>> \o (IF a.devices /\ item # "EmulatedDevice" THEN <<"EmulatedDevice">> ELSE <<>>)
             \o (IF a.streamblocks /\ item # "StreamBlock" THEN <<"StreamBlock">> ELSE <<>>)

\* C17: a loadJson call on a file whose top-level DeleteExisting is a string
\* starts __addObject with the items it would have for the list of that one
\* string: the string, then the types its flags add.
C17_StringAsList ==
    [][(pc = "idle" /\ loads' = loads + 1 /\ StringAtTop) =>
          /\ err' = ""
          /\ pc' = "addObject"
          /\ Len(stack') = 1
          /\ stack'[1].stage = "enter"
          /\ stack'[1].items =
                AsOneElementList(ValueText(Entry(TheText, 0, "DeleteExisting")), args')
      ]_vars

\* The engine as the current or last loadJson call found it.
StartEngine == IF loads <= 1 THEN Engines[engine0] ELSE trace[loads - 1].eng

\* The objects of a type the call found in the engine.
Existing(type) == {h \in DOMAIN StartEngine : StartEngine[h].type = type}

\* Every object of the type that the call found was deleted before the call
\* created anything, and neither the engine nor the registry has it.
DeletedFirst(type) ==
    \A h \in Existing(type) :
        /\ h \notin DOMAIN eng
        /\ \A x \in DOMAIN objects : objects[x] # h
        /\ args.reset
           \/ \E j \in 1..Len(log) :
                 /\ log[j].op = "delete" /\ log[j].ok /\ log[j].obj = h
                 /\ \A i \in 1..Len(log) : Creates(log[i]) => j < i

\* C18: a loadJson call with autoDeleteDevices and autoDeleteStreamBlocks off,
\* on a document without DeleteExisting, makes no delete call; and once a call
\* with autoDeleteStreamBlocks on has created an object, every stream block it
\* found in the engine has been deleted before, and is in the registry no
\* more; likewise the emulated devices with autoDeleteDevices on.
C18_AutoDeleteFlags ==
    /\ (loads >= 1 /\ NoDelete(args) /\ ~HasDirective(doc)) =>
          \A i \in 1..Len(log) : log[i].op # "delete"
    /\ (loads >= 1 /\ \E i \in 1..Len(log) : Creates(log[i])) =>
          /\ args.streamblocks => DeletedFirst("StreamBlock")
          /\ args.devices => DeletedFirst("EmulatedDevice")

\* A call with autoDeleteStreamBlocks on that found a stream block, deleted it
\* and created an object afterwards.
C18_Witness ==
    /\ loads >= 1
    /\ args.streamblocks
    /\ ~args.reset
    /\ Existing("StreamBlock") # {}
    /\ \E i \in 1..Len(log) : Creates(log[i])

\* The linksUp checks a waitForLinkUp call has made, and whether it is over.
Checks == Len(call.seen)
WaitOver == pc = "wait" /\ outcome # "none"

\* C20: a waitForLinkUp call in which some check found every link up has
\* returned; one in which none did has raised; and no call makes more than
\* timeout + 1 checks.
C20_WaitReturnsWhenUp ==
    /\ pc = "wait" => Checks <= call.timeout + 1
    /\ WaitOver =>
          IF \E k \in 1..Checks : call.seen[k]
          THEN outcome = "ok"
          ELSE outcome = "raised"

\* The test type a runTest call is to run: the "Type" of parametersdict when
\* it has one, else the testtype argument.
Selected ==
    IF "Type" \in call.parametersdict.keys THEN call.parametersdict.type ELSE call.testtype

\* C21: a runTest call runs the test its parametersdict names under "Type",
\* or its testtype argument when there is no such key: one runner, of the
\* fixed-duration, ping or RFC 2544 test, is called; for any other type the
\* call raises the 'Unknown test type' error and calls no runner.
C21_RunTestDispatch ==
    (pc = "test" /\ outcome # "none") =>
        IF Lower(Selected) \in {"fixedduration", "ping", "rfc2544"}
        THEN /\ outcome = "ok"
             /\ Len(log) = 1
             /\ log[1].op = "run"
             /\ log[1].arg = Runner(Selected)
             /\ log[1].arg # ""
        ELSE /\ outcome = "raised"
             /\ err = UnknownTestType(Selected, call.testname)
             /\ log = <<>>

\* The loadJson call under way follows, on the same StcGen and without a
\* reset of its own, a loadJson call that raised.
AfterAborted ==
    /\ loads >= 2
    /\ Len(trace) = loads - 1
    /\ trace[loads - 1].outcome = "raised"
    /\ ~args.reset

\* C22: a loadJson call that follows an aborted one without a reset treats, in
\* __resolveRelations, only relations that its own __addObject queued, and in
\* __addModifiers only modifiers that its own __addObject came across; so it
\* neither applies nor fails on an entry the aborted call left behind.
C22_OwnQueuesOnly ==
    AfterAborted =>
        /\ RelationStep =>
              [owner |-> TheOwner, key |-> TheRelation.key] \in queued
        /\ (pc = "addModifiers" /\ mi <= Len(modifiers)) =>
              modifiers[mi].node \in visited

\* A step of __resolveRelations that raises.
RelationFails == pc = "resolveRelations" /\ err' # ""

\* The configure calls of __resolveRelations that the engine accepted.
AppliedRelations(lg) ==
    {i \in 1..Len(lg) : lg[i].via = 3305 /\ lg[i].op = "config" /\ lg[i].ok}

\* C23: when __resolveRelations fails on a relation, loadJson ends there with
\* the error: the calls made for the relations before it stand as they were,
\* the registry and the engine's objects are as before the step, the step
\* applies nothing, and the call has made no StreamBlockUpdate and created no
\* modifier.
C23_PartialRelations ==
    [][RelationFails =>
          /\ pc' = "idle"
          /\ outcome' = "raised"
          /\ objects' = objects
          /\ eng' = eng
          /\ SubSeq(log', 1, Len(log)) = log
          /\ AppliedRelations(log') = AppliedRelations(log)
          /\ \A i \in 1..Len(log') :
                log'[i].line # 3308 /\ ~CreatesModifier(log'[i])
      ]_vars

\* A loadJson that ended in __resolveRelations with one relation applied and
\* other relations and a modifier still queued.
C23_Witness ==
    /\ pc = "idle"
    /\ outcome = "raised"
    /\ log # <<>>
    /\ log[Len(log)].phase = "resolveRelations"
    /\ AppliedRelations(log) # {}
    /\ ri <= Len(relations)
    /\ modifiers # <<>>

\* The owners of the queue with a srcbinding or dstbinding relation.
BindingOwners(rels) ==
    {rels[i].owner : i \in {k \in 1..Len(rels) :
        \E j \in 1..Len(rels[k].attrs) :
            Lower(SubI("Relation:", "", rels[k].attrs[j].key)) \in {"srcbinding", "dstbinding"}}}

\* The StreamBlockUpdate calls of a log, and its relation configures.
StreamBlockUpdates(lg) == {i \in 1..Len(lg) : lg[i].line = 3308}
RelationConfigs(lg) == {i \in 1..Len(lg) : lg[i].via = 3305}

\* C24: when __resolveRelations ends without an error, the call has made one
\* StreamBlockUpdate for each owner that has a srcbinding or dstbinding
\* relation (in any case of the letters), none for any other owner, and each
\* of them after the last configure of a relation.
C24_UpdateOncePerOwner ==
    [][(pc = "resolveRelations" /\ ri > Len(relations) /\ err' = "") =>
          /\ \A o \in BindingOwners(relations) :
                Cardinality({i \in StreamBlockUpdates(log') : log'[i].obj = o}) = 1
          /\ \A i \in StreamBlockUpdates(log') : log'[i].obj \in BindingOwners(relations)
          /\ \A i \in StreamBlockUpdates(log') : \A k \in RelationConfigs(log') : k < i
      ]_vars

\* __resolveRelations has ended: one owner had two bindings and was updated
\* once, another owner had a relation that is no binding.
C24_Witness ==
    /\ pc = "addModifiers"
    /\ \E i \in StreamBlockUpdates(log) :
          Cardinality({k \in AppliedRelations(log) : log[k].obj = log[i].obj}) >= 2
    /\ \E k \in AppliedRelations(log) :
          \A i \in StreamBlockUpdates(log) : log[i].obj # log[k].obj

\* C25: the configure call __config issues after the search names, by its
\* path, the very object in which __findAttribute found the attribute, however
\* the objects below the target are arranged.
C25_ReissueHitsMatch ==
    (pc = "config" /\ outcome # "none") =>
        \A i \in 1..Len(log) :
            log[i].line = 3382 =>
                \E j \in 1..Len(log) :
                    /\ j < i
                    /\ log[j].line = 3414
                    /\ EngResolve(eng, log[i].obj) = log[j].obj

\* __addObject stands at a modifier declaration while __addObject runs for
\* loadJson itself.
ModifierStep == pc = "addObject" /\ AtKey("modifier")

\* C26: in the first phase a declaration of a modifier type makes no engine
\* call and touches neither the engine nor the registry; it adds one entry
\* named parent + "." + key to the queue, or nothing when that name is queued
\* already; nothing declared inside a modifier is visited in that phase; the
\* names of the queue are distinct, in particular those of modifiers with
\* different parents; and a pass of __addModifiers creates at most one
\* modifier, under the parent of the entry it has reached.
C26_ModifierDeferred ==
    /\ [](pc = "addObject" =>
            \A id \in visited : ~InModifier(doc, NodeOf(doc, id).parent))
    /\ [](\A i, j \in 1..Len(modifiers) :
            (i # j) => /\ modifiers[i].name # modifiers[j].name
                       /\ (modifiers[i].parent # modifiers[j].parent
                             => modifiers[i].name # modifiers[j].name))
    /\ [][ModifierStep =>
             /\ NewCalls = <<>>
             /\ eng' = eng
             /\ objects' = objects
             /\ relations' = relations
             /\ IF \E i \in 1..Len(modifiers) :
                      modifiers[i].name = Top.parent \o "." \o CurKey
                THEN modifiers' = modifiers
                ELSE /\ Len(modifiers') = Len(modifiers) + 1
                     /\ SubSeq(modifiers', 1, Len(modifiers)) = modifiers
                     /\ modifiers'[Len(modifiers')].name = Top.parent \o "." \o CurKey
                     /\ modifiers'[Len(modifiers')].parent = Top.parent
                     /\ modifiers'[Len(modifiers')].type = CurNode.otype
         ]_vars
    /\ [][(pc = "addModifiers") =>
             /\ Cardinality({i \in 1..Len(NewCalls) : CreatesModifier(NewCalls[i])}) <= 1
             /\ \A i \in 1..Len(NewCalls) :
                   CreatesModifier(NewCalls[i]) =>
                       /\ mi <= Len(modifiers)
                       /\ NewCalls[i].obj = modifiers[mi].parent
                       /\ mi' = mi
                       /\ Top'.ret = "modifier"
         ]_vars

\* Two modifiers declared under the same name in two stream blocks were
\* queued under two names, and each was created once under its parent.
C26_Witness ==
    /\ pc = "idle"
    /\ outcome = "ok"
    /\ \E i, j \in 1..Len(log) :
          /\ i < j
          /\ CreatesModifier(log[i]) /\ log[i].ok
          /\ CreatesModifier(log[j]) /\ log[j].ok
          /\ log[i].obj # log[j].obj
          /\ objects[log[i].obj \o ".Mod"] = log[i].res
          /\ objects[log[j].obj \o ".Mod"] = log[j].res

\* __addModifiers takes the queued modifier modifiers[mi].
ModifierPass ==
    /\ pc = "addModifiers"
    /\ stack = <<>>
    /\ Len(modifiers) = msize
    /\ mi <= msize

\* The queued modifier has no "Field" left among its attributes.
LacksField(m) == "Field" \in m.drop \/ ~HasKey(TheText, m.node, "Field")

\* The last part of the modifier's Field, as createModifier writes it into the
\* offset reference.
FieldAttribute(m) ==
    LET parts == SplitOn(ModifyPDUKey(ValueText(Entry(TheText, m.node, "Field"))), ".")
        last == parts[Len(parts)]
    IN  IF SearchI("tos", last) \/ SearchI("diffserv", last) THEN SubTos(last) ELSE last

\* The attributes declared for the modifier at node `at`, Field aside, that
\* __addObject hands to __config.
PlainAttributes(at) ==
    {nd \in Range(Documents[doc]) :
        nd.parent = at /\ nd.key # "Field" /\ KeyKind(nd) = "attribute"}

HandleOf(objectname) ==
    IF Suffix(objectname) = "" THEN objects[BaseName(objectname)]
    ELSE EngResolve(eng, objects[BaseName(objectname)] \o Suffix(objectname))

RECURSIVE SpaceJoined(_)
SpaceJoined(names) ==
    IF names = <<>> THEN ""
    ELSE IF Len(names) = 1 THEN HandleOf(names[1])
    ELSE HandleOf(names[1]) \o " " \o SpaceJoined(Tail(names))

\* The calls of __config for a relation among the calls of a step: the first
\* attempt of each.
RelationSets(evs) == {i \in 1..Len(evs) : evs[i].line = 3361 /\ evs[i].via = 3305}

\* C28: a step of __resolveRelations that does not raise, for a relation with
\* at least one name, calls __config once, for the owner, with the attribute
\* as queued less its "Relation:" and with the handles of the names, in the
\* order declared and one space apart, for its value; and the engine accepts
\* one configure of that value.
C28_RelationValue ==
    [][(RelationStep /\ err' = "" /\ TheRelation.val # <<>>) =>
          /\ Cardinality(RelationSets(NewCalls)) = 1
          /\ \A i \in RelationSets(NewCalls) :
                /\ NewCalls[i].op = "config"
                /\ NewCalls[i].obj = TheOwner
                /\ NewCalls[i].arg = SubI("Relation:", "", TheRelation.key)
                /\ ~SearchI("Relation:", NewCalls[i].arg)
                /\ NewCalls[i].val = SpaceJoined(TheRelation.val)
          /\ Cardinality({i \in 1..Len(NewCalls) :
                             NewCalls[i].op = "config" /\ NewCalls[i].ok}) = 1
          /\ \A i \in 1..Len(NewCalls) :
                NewCalls[i].op = "config" => NewCalls[i].val = SpaceJoined(TheRelation.val)
      ]_vars

\* A relation of two names was applied: a configure with two handles.
C28_Witness ==
    \E i \in 1..Len(log) :
        /\ log[i].via = 3305
        /\ log[i].op = "config"
        /\ log[i].ok
        /\ Len(SplitOn(log[i].val, " ")) = 2
        /\ SplitOn(log[i].val, " ")[1] # SplitOn(log[i].val, " ")[2]

\* The objects at and below h, each before its children and the children in
\* the order the engine lists them.
RECURSIVE PreOrder(_)
RECURSIVE Walk(_)
Walk(siblings) ==
    IF siblings = {} THEN <<>>
    ELSE LET first(c) == PreOrder(c) \o Walk(siblings \ {c})
         IN  first(CHOOSE x \in siblings : \A y \in siblings : eng[x].ord <= eng[y].ord)
PreOrder(h) == <<h>> \o Walk({c \in DOMAIN eng : eng[c].parent = h})

\* The place of the first object of the sequence that has the attribute, 0 if
\* none has it.
FirstHolder(seq, attribute) ==
    LET hits == {i \in 1..Len(seq) : Matches(seq[i], attribute) # {}}
    IN  IF hits = {} THEN 0 ELSE CHOOSE i \in hits : \A k \in hits : i <= k

\* The objects whose attributes the search of a __config call has read.
Inspected ==
    LET reads == SelectSeq(log, LAMBDA ev : ev.line = 3406)
    IN  [i \in 1..Len(reads) |-> reads[i].obj]

\* C29: the search of __findAttribute reads the objects at and below its
\* target each before its children, the children as the engine lists them,
\* and stops at the first that has an attribute equal to the one asked for
\* but for letter case: that object and its attribute are the result, and no
\* object after it is read; when none has it, every object is read and the
\* result is marked not found, with the target and the attribute as given.
C29_FirstMatchWins ==
    (pc = "config" /\ outcome # "none" /\ ~log[1].ok) =>
        LET holds(r, seq, k) ==
                IF k = 0
                THEN /\ ~r.foundmatch
                     /\ r.object = cfg.object
                     /\ r.attribute = cfg.attribute
                     /\ r.ddn = cfg.object
                     /\ Inspected = seq
                ELSE /\ r.foundmatch
                     /\ r.object = seq[k]
                     /\ r.attribute \in Matches(seq[k], cfg.attribute)
                     /\ Inspected = SubSeq(seq, 1, k)
                     /\ \E i \in 1..Len(log) : log[i].line = 3414 /\ log[i].obj = seq[k]
            at(r, seq) == holds(r, seq, FirstHolder(seq, cfg.attribute))
        IN  at(FindAttribute(eng, cfg.object, cfg.attribute, TRUE), PreOrder(cfg.object))

\* Two objects below the port have the attribute: the search stopped at the
\* first of them and left an object unread.
C29_Witness ==
    /\ pc = "config"
    /\ outcome # "none"
    /\ ~log[1].ok
    /\ Len(Inspected) >= 2
    /\ Len(Inspected) < Cardinality(Subtree(eng, cfg.object))
    /\ Cardinality(Holders(cfg.object, cfg.attribute)) >= 2

\* The registry as the current or last loadJson call found it.
StartObjects ==
    IF loads <= 1 THEN PopulateObjectsDict(Engines[engine0]) ELSE trace[loads - 1].objects

\* The names the call found registered for an object that its deletes have
\* removed since.
DeletedNames ==
    {x \in DOMAIN StartObjects : StartObjects[x] \in Deleted(StartEngine, log)}

\* __addObject stands at a key that declares an object it creates at once.
CreateStep == AtKey("streamblock") \/ AtKey("device") \/ AtKey("object")

\* C30: __addObject deletes for DeleteExisting only on entering a mapping,
\* before it has visited any key of that mapping, and leaves that block with
\* every registry entry naming a live object; so a key whose name the call
\* found registered for an object deleted since is given a newly created
\* object, never the handle deleted: created at that key, or at an earlier
\* key of the same name.
C30_DeleteBeforeChildren ==
    /\ [][DeleteStep =>
             /\ \A nd \in Range(Documents[doc]) : nd.parent = Top.node => nd.id \notin visited
             /\ err' = "" =>
                   /\ Top'.stage = "iter"
                   /\ \A x \in DOMAIN objects' : objects'[x] \in DOMAIN eng'
         ]_vars
    /\ [][(~DeleteStep) => \A i \in 1..Len(NewCalls) : NewCalls[i].op # "delete"]_vars
    /\ [][(CreateStep /\ ~args.reset /\ CurKey \in DeletedNames /\ err' = "") =>
             /\ CurKey \in DOMAIN objects'
             /\ objects'[CurKey] # StartObjects[CurKey]
             /\ objects'[CurKey] \notin DOMAIN StartEngine
             /\ objects'[CurKey] \in DOMAIN eng'
             /\ CurKey \notin DOMAIN objects =>
                   /\ objects'[CurKey] \notin DOMAIN eng
                   /\ \E i \in 1..Len(NewCalls) : Creates(NewCalls[i]) /\ NewCalls[i].ok
                   /\ \A i \in 1..Len(NewCalls) :
                         Registers(NewCalls[i]) => NewCalls[i].res = objects'[CurKey]
         ]_vars

\* A name the call found registered was deleted with its type and stands for
\* a new object now.
C30_Witness ==
    /\ ~args.reset
    /\ \E x \in DeletedNames :
          /\ x \in DOMAIN objects
          /\ objects[x] \in DOMAIN eng
          /\ objects[x] \notin DOMAIN StartEngine

\* C31: whatever a DeleteExisting key holds, at whatever level, loadJson makes
\* no configure call for an attribute of that name, so that no search for
\* such an attribute is ever entered.
C31_DirectiveNeverConfigured ==
    \A i \in 1..Len(log) :
        log[i].op = "config" => Lower(log[i].arg) # "deleteexisting"

\* C32: a declaration of a stream block, a device or an object of any other
\* type but a modifier, under a name the registry holds, makes the engine
\* create nothing, whatever its parent and its type: the registry is left as
\* it is and the attributes and children declared are applied to the handle
\* registered.
C32_ReuseByName ==
    [][(CreateStep /\ CurKey \in DOMAIN objects /\ err' = "") =>
          /\ \A i \in 1..Len(NewCalls) : ~Creates(NewCalls[i])
          /\ eng' = eng
          /\ objects' = objects
          /\ Top'.node = CurNode.id
          /\ Top'.parent = objects[CurKey]
      ]_vars

T32 ==
    [][(CreateStep /\ CurKey \in DOMAIN objects /\ err' = "" /\ ~IsProtocolConfig(CurNode.otype)) =>
          /\ \A i \in 1..Len(NewCalls) : ~Creates(NewCalls[i])
          /\ eng' = eng
          /\ objects' = objects
          /\ Top'.node = CurNode.id
          /\ Top'.parent = objects[CurKey]
      ]_vars

\* The hexadecimal numerals of at most two digits, in lower case, of a byte.
HexNumerals(v) ==
    {Ch(HexChars, (v \div 16) + 1) \o Ch(HexChars, (v % 16) + 1)}
    \cup (IF v < 16 THEN {Ch(HexChars, v + 1)} ELSE {})

\* The six fields of a configure call add up, each with its weight, to v.
TosSum(text, v) ==
    \E p \in 0..7 : \E d, t, r, m, x \in 0..1 :
        /\ p * 32 + d * 16 + t * 8 + r * 4 + m * 2 + x = v
        /\ text = TosText([precedence |-> p, dBit |-> d, tBit |-> t, rBit |-> r,
                           mBit |-> m, reserved |-> x])

\* C33: for every byte 0..255, written as a hexadecimal numeral with a 0x
\* prefix or without, __setIPv4Tos makes exactly one configure call, on the
\* tos object of the IPv4 header of its parent, with precedence in 0..7 and
\* dBit, tBit, rBit, mBit and reserved in 0..1 such that precedence*32 +
\* dBit*16 + tBit*8 + rBit*4 + mBit*2 + reserved is the byte; with the header
\* present the engine accepts the call.
C33_TosEveryByte ==
    (pc = "tos" /\ outcome # "none") =>
        LET given(num) ==
                \A v \in 0..255 :
                    num \in HexNumerals(v) =>
                        /\ Len(log) = 1
                        /\ TosCalls = {1}
                        /\ log[1].op = "config"
                        /\ log[1].obj = cfg.object \o ".ipv4:IPv4.tosdiffserv.tos"
                        /\ TosSum(log[1].val, v)
                        /\ ChildrenOfType(eng, cfg.object, "ipv4:IPv4") # <<>> => OneTosCall
        IN  given(Lower(HexDigits(cfg.value)))

\* The call made with '0X7F' on a stream block with the header: an odd byte
\* with a precedence other than 7.
C33_Witness ==
    /\ pc = "tos"
    /\ cfg.value = "0X7F"
    /\ OneTosCall
    /\ log[1].val = "precedence=3 dBit=1 tBit=1 rBit=1 mBit=1 reserved=1"

\* A name without any ' (offline)' in it, and without one at its end.
RECURSIVE WithoutOffline(_)
WithoutOffline(s) ==
    IF s = "" THEN ""
    ELSE IF Len(s) >= 10 /\ SubSeq(s, 1, 10) = " (offline)"
    THEN WithoutOffline(SubSeq(s, 11, Len(s)))
    ELSE Head(s) \o WithoutOffline(Tail(s))

WithoutTrailingOffline(s) ==
    IF Len(s) >= 10 /\ SubSeq(s, Len(s) - 9, Len(s)) = " (offline)"
    THEN SubSeq(s, 1, Len(s) - 10) ELSE s

\* The objects __populateObjectsDict visits, in the order of its visits: each
\* port of the project followed by its stream blocks, then the devices.
RECURSIVE PortVisits(_)
PortVisits(ports) ==
    IF ports = <<>> THEN <<>>
    ELSE <<Head(ports)>> \o ChildrenOfType(eng, Head(ports), "streamblock")
         \o PortVisits(Tail(ports))

Visits ==
    PortVisits(ChildrenOfType(eng, project, "port"))
    \o ChildrenOfType(eng, project, "emulateddevice")

\* The engine's name of h, a port's without any ' (offline)' / without a
\* trailing one.
NameOf(h) ==
    IF Lower(eng[h].type) = "port" THEN WithoutOffline(eng[h].name) ELSE eng[h].name

TrailingNameOf(h) ==
    IF Lower(eng[h].type) = "port" THEN WithoutTrailingOffline(eng[h].name) ELSE eng[h].name

Constructed == pc = "idle" /\ loads = 0

\* C34: after construction the registry holds the name of every port of the
\* project with every ' (offline)' taken out of it, of every stream block of
\* such a port and of every emulated device of the project, and no other
\* name; each name is mapped to the object of that name visited last, the
\* order being each port, then its stream blocks, and the devices at the end.
C34_Prepopulated ==
    Constructed =>
        LET over(vs) ==
                /\ DOMAIN objects = {NameOf(vs[i]) : i \in 1..Len(vs)}
                /\ \A i \in 1..Len(vs) :
                      (\A j \in (i + 1)..Len(vs) : NameOf(vs[j]) # NameOf(vs[i]))
                          => objects[NameOf(vs[i])] = vs[i]
        IN  over(Visits)

\* C34 as stated: the same, with the name of a port taken without a trailing
\* ' (offline)' only.
C34_PrepopulatedAsStated ==
    Constructed =>
        LET over(vs) ==
                /\ DOMAIN objects = {TrailingNameOf(vs[i]) : i \in 1..Len(vs)}
                /\ \A i \in 1..Len(vs) :
                      (\A j \in (i + 1)..Len(vs) : TrailingNameOf(vs[j]) # TrailingNameOf(vs[i]))
                          => objects[TrailingNameOf(vs[i])] = vs[i]
        IN  over(Visits)

\* A loader constructed on a session with an offline port, a port named like
\* a stream block of the other port, and a device that shares its name with
\* a stream block: each shared name holds the object visited last.
C34_Witness ==
    /\ Constructed
    /\ \E p, q, b, c, d \in DOMAIN eng :
          /\ eng[p].name = "Port1 (offline)" /\ eng[q].name = "Port1" /\ eng[q].ord > eng[p].ord
          /\ eng[b].name = "Port1" /\ eng[b].parent = q /\ eng[b].type = "StreamBlock"
          /\ eng[c].name = "SB1" /\ eng[c].type = "StreamBlock"
          /\ eng[d].name = "SB1" /\ eng[d].type = "EmulatedDevice"
          /\ objects = [Port1 |-> b, SB1 |-> d]

\* The calls of a __config call that belong to its search: every call but
\* the configure calls.
SearchCalls == {i \in 1..Len(log) : log[i].op # "config"}

\* C35: a __config call begins with the direct configure call, for the
\* object and the attribute given.  When the engine accepts it, it is the
\* only call __config makes: no attributes are listed and no children are
\* read.  Every call of the search comes after a direct configure call that
\* the engine refused, and the configure call is made again only after the
\* search.
C35_SearchOnColdPath ==
    (pc = "config" /\ outcome # "none") =>
        /\ Len(log) >= 1
        /\ log[1].op = "config"
        /\ log[1].line = 3361
        /\ log[1].obj = cfg.object
        /\ log[1].arg = cfg.attribute
        /\ log[1].val = cfg.value
        /\ log[1].ok <=> EngConfigOk(eng, cfg.object, cfg.attribute, cfg.value)
        /\ log[1].ok => Len(log) = 1 /\ outcome = "ok"
        /\ \A i \in SearchCalls : i > 1 /\ ~log[1].ok
        /\ \A i \in ConfigCalls : i = 1 \/ (i = Len(log) /\ SearchCalls = 2..(Len(log) - 1))

\* A __config call whose direct configure call the engine accepted, on a port
\* with objects below it.
C35_Witness ==
    /\ pc = "config"
    /\ outcome = "ok"
    /\ log[1].ok
    /\ log[1].line = 3361
    /\ Len(log) = 1
    /\ Cardinality(Subtree(eng, cfg.object)) > 1

====
